---- MODULE Spec2Model ----
(***************************************************************************)
(* Scoped multi-resource lifecycle management as the context-manager       *)
(* workshop uses it: one `async with AsyncExitStack() as stack:` scope     *)
(* whose body adds resources with `await stack.enter_async_context(cm)`,   *)
(* every cm being an @asynccontextmanager generator of the shape of        *)
(* mcp_server_connection (connect / yield / finally: disconnect).          *)
(*                                                                         *)
(* The stack is contextlib.AsyncExitStack: enter_async_context awaits the  *)
(* manager's __aenter__ and pushes its __aexit__ only on success;          *)
(* __aexit__ pops the callbacks in LIFO order, keeps going when a callback *)
(* raises (the new exception gets the previous one as __context__), and    *)
(* raises the last exception at the end.                                   *)
(*                                                                         *)
(* An exception is modelled as its __context__ chain: a sequence whose     *)
(* head is the exception raised and whose tail is the chain of the         *)
(* exceptions that were being handled when it was raised; <<>> is "no      *)
(* exception".                                                             *)
(***************************************************************************)
EXTENDS Naturals, Sequences, FiniteSets

\* Largest number of resources one scope body adds.
MaxRes == 3
\* Largest number of times __aexit__ / aclose() is called on one stack.
MaxExit == 2
\* Largest number of smart_session managers entered in one run.
MaxSessions == 3
\* Largest number of smart_llm_call calls in one run.
MaxCalls == 2
\* Largest number of temp_config managers open at once.
MaxConfigDepth == 2
\* Largest number of messages a chat history grows to.
MaxHistory == 4
\* Largest number of add_message calls in one llm_session body.
MaxMessages == 3

VARIABLES
    n,            \* number of enter_async_context calls the body makes
    pc,           \* position of the task that owns the scope
    cur,          \* resource whose connect / disconnect is suspended (0: none)
    callbacks,    \* stack._exit_callbacks (resource ids, last pushed last)
    connected,    \* MockMCPSession.connected of every resource
    connectLog,   \* sessions on which connect() was invoked, in order
    acquireLog,   \* sessions whose __aenter__ returned, in order
    releaseLog,   \* sessions on which disconnect() was invoked, in order
    relFailed,    \* sessions whose disconnect() raised
    exc,          \* exception propagating in the body (chain; <<>>: none)
    exc_details,  \* __aexit__'s local exc_details (chain)
    received_exc, \* __aexit__'s local received_exc
    pending_raise,\* __aexit__'s local pending_raise
    exitCalls,    \* number of __aexit__ calls made on the stack
    surfaced      \* exception the async-with statement propagated (chain)

flatVars == <<n, pc, cur, callbacks, connected, connectLog, acquireLog,
              releaseLog, relFailed, exc, exc_details, received_exc,
              pending_raise, exitCalls, surfaced>>

\* combined_approach: an outer stack of application_context managers, each
\* of which holds an inner stack of its own.
VARIABLES
    appPc,          \* position of the task that runs combined_approach
    appCur,         \* application whose generator is running (0: none)
    appMode,        \* "enter": inside its __aenter__; "exit": inside its __aexit__
    appStarted,     \* number of enter_async_context calls the outer body made
    appAcquireLog,  \* applications whose __aenter__ returned, in order
    innerNext,      \* number of adds the running application has started
    outerCallbacks, \* outer stack._exit_callbacks (application ids)
    innerCallbacks, \* every application's inner stack._exit_callbacks
    innerExitCalls, \* __aexit__ calls made on every application's inner stack
    openLog,        \* <<application, resource>> connections opened, in order
    closeLog,       \* <<application, step>> teardown steps, in order (step 0
                    \* is the application's finally block, step r closes r)
    outer_exc,      \* exception propagating in the outer body (chain)
    outer_details,  \* outer __aexit__'s exc_details
    outer_received, \* outer __aexit__'s received_exc
    outer_pending,  \* outer __aexit__'s pending_raise
    inner_thrown,   \* exception the running inner __aexit__ was called with
    inner_details,  \* inner __aexit__'s exc_details
    inner_received, \* inner __aexit__'s received_exc
    inner_pending,  \* inner __aexit__'s pending_raise
    appSurfaced     \* exception the outer with statement propagated (chain)

nestVars == <<appPc, appCur, appMode, appStarted, appAcquireLog, innerNext,
              outerCallbacks, innerCallbacks, innerExitCalls, openLog, closeLog,
              outer_exc, outer_details, outer_received, outer_pending,
              inner_thrown, inner_details, inner_received, inner_pending,
              appSurfaced>>

\* 04_smart_session.py: the two context variables and the smart_session
\* managers that are open.
VARIABLES
    current_session, \* the ContextVar: <<>> unset, <<ref>> set to a session
    current_model,   \* the ContextVar: <<>> unset, <<m>> set to a model name
    sessions,        \* every session dict created; a session's ref is its index
    openSessions,    \* frames of the smart_session generators suspended at yield
    sessRaising,     \* an exception raised by a body is propagating
    sessOp,          \* the operation that ran last
    sessExited,      \* frame of the smart_session that exited last
    llmCalls         \* number of smart_llm_call calls made

sessVars == <<current_session, current_model, sessions, openSessions,
              sessRaising, sessOp, sessExited, llmCalls>>

\* 01_basic_concepts.py: a config dict and the temp_config managers open on it.
VARIABLES
    config,     \* the dict: a function from the keys it holds to their values
    cfgFrames,  \* frames of the temp_config generators suspended at yield
    cfgRaising, \* an exception raised by a body is propagating
    cfgOp,      \* the operation that ran last
    cfgExited   \* frame of the temp_config that exited last

cfgVars == <<config, cfgFrames, cfgRaising, cfgOp, cfgExited>>

\* utils/client.py and utils/llm_client.py: one client object.
VARIABLES
    clientKind,   \* the class of the client: "AIClient" or "LLMClient"
    chat_history, \* self.chat_history: the messages, oldest first
    clientOp,     \* the method that was called last
    clientRaised, \* that call raised
    prevHistory,  \* chat_history when that call was made
    callArgs,     \* the temperature and top_p arguments of that call
    request,      \* <<the sampling parameters of the request that call sent>>,
                  \* <<>> when it sent none
    provider,     \* self.provider
    client_config,\* self.config
    client,       \* self.client: the OpenAI client object
    API_PROVIDERS,\* config.API_PROVIDERS: the module-level provider table
    overridden    \* an api_key override has been passed to a constructor or
                  \* to switch_provider

clientVars == <<clientKind, chat_history, clientOp, clientRaised, prevHistory,
                callArgs, request, provider, client_config, client,
                API_PROVIDERS, overridden>>

\* 02_llm_session_manager.py: one llm_session scope after another.
VARIABLES
    llmSession, \* the session dict of the llm_session that is or was open
    llmPc,      \* "idle", "body" (the generator is suspended at yield), "done"
    llmBody,    \* how the body ended: "running", "return", or the exception
    llmOutput,  \* what llm_session and add_message printed, in order
    llmRaised   \* the exception the with statement propagated ("none": none)

llmVars == <<llmSession, llmPc, llmBody, llmOutput, llmRaised>>

\* 08_local_mcp_integration.py, production_mcp_integration: the task that
\* owns the scope and the workload tasks it gathers.
VARIABLES
    prodPc,          \* "adding", "gathering", "teardown", "done"
    prodConnected,   \* MockMCPSession.connected of every service
    prodStack,       \* stack._exit_callbacks (service numbers)
    prodLog,         \* services on which disconnect() was invoked, in order
    taskPos,         \* per workload task: the call_tool it is suspended in
                     \* (0: not started yet)
    taskEnd,         \* per workload task: "running", "returned", "raised",
                     \* "cancelled"
    cancelRequested, \* cancel() was called on the owner while it gathers
    connErrors       \* tasks whose call_tool raised ConnectionError

prodVars == <<prodPc, prodConnected, prodStack, prodLog, taskPos, taskEnd,
              cancelRequested, connErrors>>

\* 08_local_mcp_integration.py, bad_example_without_context_manager.
VARIABLES
    manPc,         \* "try", "cleanup", "done"
    manStep,       \* the statement the function is at: in the try block
                   \* 1..3 the connects, 4 the call_tool; in the cleanup
                   \* 1..3 the three if statements
    manSuspended,  \* the function is suspended in the sleep of that statement
    manConnected,  \* MockMCPSession.connected of the three sessions
    manServer,     \* how the server of every session behaves
    manOutput,     \* what the except clause printed
    manRaised      \* the exception the function ended with ("none")

manVars == <<manPc, manStep, manSuspended, manConnected, manServer, manOutput,
            manRaised>>

vars == <<flatVars, nestVars, sessVars, cfgVars, clientVars, llmVars, prodVars,
          manVars>>

\* What the actions of one scenario leave alone: the other scenarios' state.
nonFlat == <<nestVars, sessVars, cfgVars, clientVars, llmVars, prodVars,
            manVars>>
nonNest == <<flatVars, sessVars, cfgVars, clientVars, llmVars, prodVars,
            manVars>>
nonSess == <<flatVars, nestVars, cfgVars, clientVars, llmVars, prodVars,
            manVars>>
nonCfg == <<flatVars, nestVars, sessVars, clientVars, llmVars, prodVars,
            manVars>>
nonClient == <<flatVars, nestVars, sessVars, cfgVars, llmVars, prodVars,
            manVars>>
nonLlm == <<flatVars, nestVars, sessVars, cfgVars, clientVars, prodVars,
            manVars>>
nonProd == <<flatVars, nestVars, sessVars, cfgVars, clientVars, llmVars,
            manVars>>
nonMan == <<flatVars, nestVars, sessVars, cfgVars, clientVars, llmVars,
           prodVars>>

Res == 1..MaxRes

\* Exceptions of the three origins.
BodyExc == [kind |-> "body", id |-> 0]
AcqExc(k) == [kind |-> "acquire", id |-> k]
RelExc(k) == [kind |-> "release", id |-> k]

\* asyncio.CancelledError thrown into the task at the await it is suspended in.
CancelExc == [kind |-> "cancel", id |-> 0]

RECURSIVE Reverse(_)
Reverse(s) == IF s = <<>> THEN <<>> ELSE Append(Reverse(Tail(s)), Head(s))

Range(s) == {s[i] : i \in 1..Len(s)}

Count(s, x) == Cardinality({i \in 1..Len(s) : s[i] = x})

\* deque.pop(): the element removed and the deque left.
\* Faulty variants of pop, for mutation checks: popleft(), and a peek that
\* leaves the element in place.
PopMutFifo(s) == [item |-> s[1], rest |-> Tail(s)]
PopMutPeek(s) == [item |-> s[Len(s)], rest |-> s]
Pop(s) == [item |-> s[Len(s)], rest |-> SubSeq(s, 1, Len(s) - 1)]

InitFlat(sizes) ==
    /\ n \in sizes
    /\ pc = "body"
    /\ cur = 0
    /\ callbacks = <<>>
    /\ connected = [k \in Res |-> FALSE]
    /\ connectLog = <<>>
    /\ acquireLog = <<>>
    /\ releaseLog = <<>>
    /\ relFailed = {}
    /\ exc = <<>>
    /\ exc_details = <<>>
    /\ received_exc = FALSE
    /\ pending_raise = FALSE
    /\ exitCalls = 0
    /\ surfaced = <<>>

\* k-th `await stack.enter_async_context(mcp_server_connection(...))`:
\* __aenter__ runs the generator up to `await session.connect()`, which
\* suspends in asyncio.sleep.
\* Faulty variant: an add is started while the previous one is still awaited.
AddStartMutConcurrent ==
    /\ pc \in {"body", "acquiring"}
    /\ UNCHANGED nonFlat
    /\ Len(connectLog) < n
    /\ cur' = Len(connectLog) + 1
    /\ connectLog' = Append(connectLog, Len(connectLog) + 1)
    /\ pc' = "acquiring"
    /\ UNCHANGED <<n, callbacks, connected, acquireLog, releaseLog, relFailed,
                   exc, exc_details, received_exc, pending_raise, exitCalls,
                   surfaced>>
AddStart ==
    /\ pc = "body"
    /\ UNCHANGED nonFlat
    /\ Len(connectLog) < n
    /\ cur' = Len(connectLog) + 1
    /\ connectLog' = Append(connectLog, Len(connectLog) + 1)
    /\ pc' = "acquiring"
    /\ UNCHANGED <<n, callbacks, connected, acquireLog, releaseLog, relFailed,
                   exc, exc_details, received_exc, pending_raise, exitCalls,
                   surfaced>>

\* connect() completes: connected = True, the generator yields the session,
\* enter_async_context pushes the manager's __aexit__ and returns.
AcquireOkMutNotConnected ==
    /\ pc = "acquiring"
    /\ UNCHANGED nonFlat
    /\ acquireLog' = Append(acquireLog, cur)
    /\ callbacks' = Append(callbacks, cur)
    /\ cur' = 0
    /\ pc' = "body"
    /\ UNCHANGED <<n, connected, connectLog, releaseLog, relFailed, exc,
                   exc_details, received_exc, pending_raise, exitCalls, surfaced>>
AcquireOk ==
    /\ pc = "acquiring"
    /\ UNCHANGED nonFlat
    /\ connected' = [connected EXCEPT ![cur] = TRUE]
    /\ acquireLog' = Append(acquireLog, cur)
    /\ callbacks' = Append(callbacks, cur)
    /\ cur' = 0
    /\ pc' = "body"
    /\ UNCHANGED <<n, connectLog, releaseLog, relFailed, exc, exc_details,
                   received_exc, pending_raise, exitCalls, surfaced>>

\* The generator's `finally: if session.connected: await session.disconnect()`.
\* Faulty variant: the finally block disconnects unconditionally.
FinallyGuardMutAlways(k) == TRUE
FinallyGuard(k) == connected[k]

\* connect() raises before setting connected: the generator's finally runs
\* (its guard decides whether disconnect is invoked), nothing is pushed, and
\* the exception propagates out of enter_async_context into the body.
\* Faulty variant: a failing add tears the stack down before it raises.
AcquireFailMutTeardown ==
    /\ pc = "acquiring"
    /\ UNCHANGED nonFlat
    /\ releaseLog' = releaseLog \o Reverse(callbacks)
    /\ connected' = [k \in Res |-> connected[k] /\ k \notin Range(callbacks)]
    /\ callbacks' = <<>>
    /\ exc' = <<AcqExc(cur)>>
    /\ cur' = 0
    /\ pc' = "leaving"
    /\ UNCHANGED <<n, connectLog, acquireLog, relFailed, exc_details,
                   received_exc, pending_raise, exitCalls, surfaced>>
\* Faulty variant: the callback is pushed although __aenter__ raised.
AcquireFailMutPush ==
    /\ pc = "acquiring"
    /\ UNCHANGED nonFlat
    /\ callbacks' = Append(callbacks, cur)
    /\ exc' = <<AcqExc(cur)>>
    /\ cur' = 0
    /\ pc' = "leaving"
    /\ UNCHANGED <<n, connected, connectLog, acquireLog, releaseLog, relFailed,
                   exc_details, received_exc, pending_raise, exitCalls, surfaced>>
\* Faulty variant: a failed connect is attempted again.
AcquireFailMutRetry ==
    /\ pc = "acquiring"
    /\ UNCHANGED nonFlat
    /\ connectLog' = Append(connectLog, cur)
    /\ UNCHANGED <<n, pc, cur, callbacks, connected, acquireLog, releaseLog,
                   relFailed, exc, exc_details, received_exc, pending_raise,
                   exitCalls, surfaced>>
AcquireFail ==
    /\ pc = "acquiring"
    /\ UNCHANGED nonFlat
    /\ releaseLog' = IF FinallyGuard(cur) THEN Append(releaseLog, cur)
                                           ELSE releaseLog
    /\ exc' = <<AcqExc(cur)>>
    /\ cur' = 0
    /\ pc' = "leaving"
    /\ UNCHANGED <<n, callbacks, connected, connectLog, acquireLog, relFailed,
                   exc_details, received_exc, pending_raise, exitCalls, surfaced>>

\* The task is cancelled while enter_async_context awaits connect(): the sleep
\* in connect() raises CancelledError before connected is set, and the add
\* ends as a failing connect does.
CancelInAcquire ==
    /\ pc = "acquiring"
    /\ UNCHANGED nonFlat
    /\ releaseLog' = IF FinallyGuard(cur) THEN Append(releaseLog, cur)
                                           ELSE releaseLog
    /\ exc' = <<CancelExc>>
    /\ cur' = 0
    /\ pc' = "leaving"
    /\ UNCHANGED <<n, callbacks, connected, connectLog, acquireLog, relFailed,
                   exc_details, received_exc, pending_raise, exitCalls, surfaced>>

\* The task is cancelled while the body is suspended in one of its own awaits
\* (call_tool, asyncio.sleep, asyncio.gather): CancelledError is raised there.
\* Faulty variant: the cancellation leaves the scope without any teardown.
CancelInBodyMutSkip ==
    /\ pc = "body"
    /\ UNCHANGED nonFlat
    /\ exc' = <<CancelExc>>
    /\ surfaced' = <<CancelExc>>
    /\ exitCalls' = exitCalls + 1
    /\ pc' = "done"
    /\ UNCHANGED <<n, cur, callbacks, connected, connectLog, acquireLog,
                   releaseLog, relFailed, exc_details, received_exc,
                   pending_raise>>
CancelInBody ==
    /\ pc = "body"
    /\ UNCHANGED nonFlat
    /\ exc' = <<CancelExc>>
    /\ pc' = "leaving"
    /\ UNCHANGED <<n, cur, callbacks, connected, connectLog, acquireLog,
                   releaseLog, relFailed, exc_details, received_exc,
                   pending_raise, exitCalls, surfaced>>

\* A statement of the body raises (raise ValueError("Test error")).
BodyFail ==
    /\ pc = "body"
    /\ UNCHANGED nonFlat
    /\ exc' = <<BodyExc>>
    /\ pc' = "leaving"
    /\ UNCHANGED <<n, cur, callbacks, connected, connectLog, acquireLog,
                   releaseLog, relFailed, exc_details, received_exc,
                   pending_raise, exitCalls, surfaced>>

\* The body runs off its end after its last add.
BodyReturn ==
    /\ pc = "body"
    /\ UNCHANGED nonFlat
    /\ Len(connectLog) = n
    /\ exc' = <<>>
    /\ pc' = "leaving"
    /\ UNCHANGED <<n, cur, callbacks, connected, connectLog, acquireLog,
                   releaseLog, relFailed, exc_details, received_exc,
                   pending_raise, exitCalls, surfaced>>

\* The async-with statement calls stack.__aexit__(*sys.exc_info()).
\* Faulty variant: __aexit__ is called without the exception details.
AExitCallMutNoExc ==
    /\ pc = "leaving"
    /\ UNCHANGED nonFlat
    /\ exc_details' = <<>>
    /\ received_exc' = FALSE
    /\ pending_raise' = FALSE
    /\ exitCalls' = exitCalls + 1
    /\ pc' = "teardown"
    /\ UNCHANGED <<n, cur, callbacks, connected, connectLog, acquireLog,
                   releaseLog, relFailed, exc, surfaced>>
AExitCall ==
    /\ pc = "leaving"
    /\ UNCHANGED nonFlat
    /\ exc_details' = exc
    /\ received_exc' = (exc # <<>>)
    /\ pending_raise' = FALSE
    /\ exitCalls' = exitCalls + 1
    /\ pc' = "teardown"
    /\ UNCHANGED <<n, cur, callbacks, connected, connectLog, acquireLog,
                   releaseLog, relFailed, exc, surfaced>>

\* One turn of `while self._exit_callbacks:` up to the callback's suspension:
\* pop the last callback and call it; the generator's finally invokes
\* disconnect() when the session is connected.
ReleaseStart ==
    /\ pc = "teardown"
    /\ UNCHANGED nonFlat
    /\ callbacks # <<>>
    /\ callbacks' = Pop(callbacks).rest
    /\ IF FinallyGuard(Pop(callbacks).item)
       THEN /\ releaseLog' = Append(releaseLog, Pop(callbacks).item)
            /\ cur' = Pop(callbacks).item
            /\ pc' = "releasing"
       ELSE UNCHANGED <<releaseLog, cur, pc>>
    /\ UNCHANGED <<n, connected, connectLog, acquireLog, relFailed, exc,
                   exc_details, received_exc, pending_raise, exitCalls, surfaced>>

\* disconnect() completes: connected = False; the generator re-raises what was
\* thrown into it (or stops), so the callback returns a false value and
\* exc_details stays as it is.
\* Faulty variant: disconnect() returns without clearing connected.
ReleaseOkMutStaysConnected ==
    /\ pc = "releasing"
    /\ UNCHANGED nonFlat
    /\ cur' = 0
    /\ pc' = "teardown"
    /\ UNCHANGED <<n, callbacks, connected, connectLog, acquireLog, releaseLog,
                   relFailed, exc, exc_details, received_exc, pending_raise,
                   exitCalls, surfaced>>
ReleaseOk ==
    /\ pc = "releasing"
    /\ UNCHANGED nonFlat
    /\ connected' = [connected EXCEPT ![cur] = FALSE]
    /\ cur' = 0
    /\ pc' = "teardown"
    /\ UNCHANGED <<n, callbacks, connectLog, acquireLog, releaseLog, relFailed,
                   exc, exc_details, received_exc, pending_raise, exitCalls,
                   surfaced>>

\* disconnect() raises before clearing connected: __aexit__'s `except:` branch
\* chains the new exception onto exc_details, sets pending_raise and goes on
\* with the loop.
\* Faulty variant: the new exception replaces exc_details without a context.
ReleaseFailMutOverwrite ==
    /\ pc = "releasing"
    /\ UNCHANGED nonFlat
    /\ relFailed' = relFailed \cup {cur}
    /\ exc_details' = <<RelExc(cur)>>
    /\ pending_raise' = TRUE
    /\ cur' = 0
    /\ pc' = "teardown"
    /\ UNCHANGED <<n, callbacks, connected, connectLog, acquireLog, releaseLog,
                   exc, received_exc, exitCalls, surfaced>>
\* Faulty variant: the first failing callback ends the loop.
ReleaseFailMutAbort ==
    /\ pc = "releasing"
    /\ UNCHANGED nonFlat
    /\ relFailed' = relFailed \cup {cur}
    /\ exc_details' = <<RelExc(cur)>> \o exc_details
    /\ pending_raise' = TRUE
    /\ callbacks' = <<>>
    /\ cur' = 0
    /\ pc' = "teardown"
    /\ UNCHANGED <<n, connected, connectLog, acquireLog, releaseLog, exc,
                   received_exc, exitCalls, surfaced>>
ReleaseFail ==
    /\ pc = "releasing"
    /\ UNCHANGED nonFlat
    /\ relFailed' = relFailed \cup {cur}
    /\ exc_details' = <<RelExc(cur)>> \o exc_details
    /\ pending_raise' = TRUE
    /\ cur' = 0
    /\ pc' = "teardown"
    /\ UNCHANGED <<n, callbacks, connected, connectLog, acquireLog, releaseLog,
                   exc, received_exc, exitCalls, surfaced>>

\* What leaves __aexit__ and the with statement once the loop has ended:
\* `if pending_raise: raise exc_details[1]`, else `return received_exc and
\* suppressed_exc` with suppressed_exc False (no manager here suppresses), so
\* an exception received is re-raised by the with statement.
\* Faulty variant: an exception received takes priority over a pending one.
ExitOutcomeMutBodyFirst(pending, received, details, original) ==
    IF received THEN original ELSE IF pending THEN details ELSE <<>>
\* Faulty variant: __aexit__ returns a true value, swallowing what it received.
ExitOutcomeMutSuppress(pending, received, details, original) ==
    IF pending THEN details ELSE <<>>
ExitOutcome(pending, received, details, original) ==
    IF pending THEN details ELSE IF received THEN original ELSE <<>>

\* The loop finds _exit_callbacks empty and __aexit__ ends.  `surfaced` keeps
\* the outcome of the with statement's own call (the first one).
AExitReturn ==
    /\ pc = "teardown"
    /\ UNCHANGED nonFlat
    /\ callbacks = <<>>
    /\ surfaced' = IF exitCalls = 1
                   THEN ExitOutcome(pending_raise, received_exc, exc_details, exc)
                   ELSE surfaced
    /\ pc' = "done"
    /\ UNCHANGED <<n, cur, callbacks, connected, connectLog, acquireLog,
                   releaseLog, relFailed, exc, exc_details, received_exc,
                   pending_raise, exitCalls>>

\* __aexit__(None, None, None) / aclose() called again on the stack after the
\* scope has ended.
\* Faulty variant: the finished stack is handed back to the body for more adds.
ExitAgainMutReopen ==
    /\ pc = "done"
    /\ UNCHANGED nonFlat
    /\ exitCalls < MaxExit
    /\ exitCalls' = exitCalls + 1
    /\ pc' = "body"
    /\ UNCHANGED <<n, cur, callbacks, connected, connectLog, acquireLog,
                   releaseLog, relFailed, exc, exc_details, received_exc,
                   pending_raise, surfaced>>
ExitAgain ==
    /\ pc = "done"
    /\ UNCHANGED nonFlat
    /\ exitCalls < MaxExit
    /\ exc_details' = <<>>
    /\ received_exc' = FALSE
    /\ pending_raise' = FALSE
    /\ exitCalls' = exitCalls + 1
    /\ pc' = "teardown"
    /\ UNCHANGED <<n, cur, callbacks, connected, connectLog, acquireLog,
                   releaseLog, relFailed, exc, surfaced>>

(***************************************************************************)
(* traditional_nested_approach: the same managers entered by nested        *)
(* `async with` statements, level k enclosing levels k+1..m and the body.  *)
(* A with statement calls __aenter__; if that raises, the exception leaves *)
(* the statement.  Otherwise the block runs and __aexit__ is called with   *)
(* what the block raised; an exception raised by __aexit__ replaces it and *)
(* has it as __context__.                                                  *)
(*   acqRaise:  what the __aenter__ of level m raises (<<>>: it returns)   *)
(*   bodyRaise: what the innermost block raises (<<>>: it completes)       *)
(*   failedRel: the levels whose __aexit__ raises                          *)
(* The result holds the managers entered, the managers exited and the      *)
(* exception that leaves level k, in order of occurrence.                  *)
(***************************************************************************)
RECURSIVE NestedWith(_, _, _, _, _)
NestedWithMutOuterFirst(k, m, acqRaise, bodyRaise, failedRel) ==
    IF k > m
    THEN [connects |-> <<>>, releases |-> <<>>, raised |-> bodyRaise]
    ELSE IF k = m /\ acqRaise # <<>>
    THEN [connects |-> <<k>>, releases |-> <<>>, raised |-> acqRaise]
    ELSE LET inner == NestedWith(k + 1, m, acqRaise, bodyRaise, failedRel)
         IN  [connects |-> <<k>> \o inner.connects,
              releases |-> <<k>> \o inner.releases,
              raised   |-> IF k \in failedRel
                           THEN <<RelExc(k)>> \o inner.raised
                           ELSE inner.raised]
NestedWith(k, m, acqRaise, bodyRaise, failedRel) ==
    IF k > m
    THEN [connects |-> <<>>, releases |-> <<>>, raised |-> bodyRaise]
    ELSE IF k = m /\ acqRaise # <<>>
    THEN [connects |-> <<k>>, releases |-> <<>>, raised |-> acqRaise]
    ELSE LET inner == NestedWith(k + 1, m, acqRaise, bodyRaise, failedRel)
         IN  [connects |-> <<k>> \o inner.connects,
              releases |-> Append(inner.releases, k),
              raised   |-> IF k \in failedRel
                           THEN <<RelExc(k)>> \o inner.raised
                           ELSE inner.raised]

(***************************************************************************)
(* combined_approach: an outer AsyncExitStack into which the body enters   *)
(* application_context("WebServer") and application_context("APIGateway"). *)
(* application_context is an @asynccontextmanager generator that opens an  *)
(* inner AsyncExitStack, enters a database, a cache and a queue into it,   *)
(* and yields inside `try: ... finally: print(uptime)`.                    *)
(***************************************************************************)

\* Applications the outer body enters, and resources each application enters.
NumApps == 2
AppRes == 3

Apps == 1..NumApps

NestBodyExc == [kind |-> "body", id |-> <<0, 0>>]
AppAcqExc(a, r) == [kind |-> "acquire", id |-> <<a, r>>]
AppRelExc(a, r) == [kind |-> "release", id |-> <<a, r>>]

InitNest ==
    /\ appPc = "body"
    /\ appCur = 0
    /\ appMode = "none"
    /\ appStarted = 0
    /\ appAcquireLog = <<>>
    /\ innerNext = 0
    /\ outerCallbacks = <<>>
    /\ innerCallbacks = [a \in Apps |-> <<>>]
    /\ innerExitCalls = [a \in Apps |-> 0]
    /\ openLog = <<>>
    /\ closeLog = <<>>
    /\ outer_exc = <<>>
    /\ outer_details = <<>>
    /\ outer_received = FALSE
    /\ outer_pending = FALSE
    /\ inner_thrown = <<>>
    /\ inner_details = <<>>
    /\ inner_received = FALSE
    /\ inner_pending = FALSE
    /\ appSurfaced = <<>>

\* `await stack.enter_async_context(application_context(name))`: the
\* generator starts, prints, and enters its inner `async with AsyncExitStack()`.
AppAddStart ==
    /\ appPc = "body"
    /\ UNCHANGED nonNest
    /\ appStarted < NumApps
    /\ appStarted' = appStarted + 1
    /\ appCur' = appStarted + 1
    /\ appMode' = "enter"
    /\ innerNext' = 0
    /\ appPc' = "app_body"
    /\ UNCHANGED <<appAcquireLog, outerCallbacks, innerCallbacks, innerExitCalls,
                   openLog, closeLog, outer_exc, outer_details, outer_received,
                   outer_pending, inner_thrown, inner_details, inner_received,
                   inner_pending, appSurfaced>>

\* The application's next `await stack.enter_async_context(...)` on its inner
\* stack: the resource's generator suspends in its connecting sleep.
InnerAddStart ==
    /\ appPc = "app_body"
    /\ UNCHANGED nonNest
    /\ innerNext < AppRes
    /\ innerNext' = innerNext + 1
    /\ appPc' = "app_acquiring"
    /\ UNCHANGED <<appCur, appMode, appStarted, appAcquireLog, outerCallbacks,
                   innerCallbacks, innerExitCalls, openLog, closeLog, outer_exc,
                   outer_details, outer_received, outer_pending, inner_thrown,
                   inner_details, inner_received, inner_pending, appSurfaced>>

\* The resource's __aenter__ returns: the inner stack pushes its __aexit__.
InnerAcquireOk ==
    /\ appPc = "app_acquiring"
    /\ UNCHANGED nonNest
    /\ openLog' = Append(openLog, <<appCur, innerNext>>)
    /\ innerCallbacks' =
          [innerCallbacks EXCEPT ![appCur] = Append(@, innerNext)]
    /\ appPc' = "app_body"
    /\ UNCHANGED <<appCur, appMode, appStarted, appAcquireLog, innerNext,
                   outerCallbacks, innerExitCalls, closeLog, outer_exc,
                   outer_details, outer_received, outer_pending, inner_thrown,
                   inner_details, inner_received, inner_pending, appSurfaced>>

\* The resource's __aenter__ raises: the exception leaves the application's
\* `async with`, whose __aexit__ is called with it (the try/finally around
\* the yield has not been entered).
InnerAcquireFail ==
    /\ appPc = "app_acquiring"
    /\ UNCHANGED nonNest
    /\ inner_thrown' = <<AppAcqExc(appCur, innerNext)>>
    /\ inner_details' = <<AppAcqExc(appCur, innerNext)>>
    /\ inner_received' = TRUE
    /\ inner_pending' = FALSE
    /\ innerExitCalls' = [innerExitCalls EXCEPT ![appCur] = @ + 1]
    /\ appPc' = "app_teardown"
    /\ UNCHANGED <<appCur, appMode, appStarted, appAcquireLog, innerNext,
                   outerCallbacks, innerCallbacks, openLog, closeLog, outer_exc,
                   outer_details, outer_received, outer_pending, appSurfaced>>

\* All of the application's resources are entered: the generator yields
\* app_context, and the outer enter_async_context pushes the application's
\* __aexit__ on the outer stack.
\* Faulty variant: the inner stack is unwound when the generator yields.
AppYieldMutEarlyClose ==
    /\ appPc = "app_body"
    /\ UNCHANGED nonNest
    /\ innerNext = AppRes
    /\ appAcquireLog' = Append(appAcquireLog, appCur)
    /\ outerCallbacks' = Append(outerCallbacks, appCur)
    /\ closeLog' = closeLog \o
          [i \in 1..AppRes |-> <<appCur, Reverse(innerCallbacks[appCur])[i]>>]
    /\ innerCallbacks' = [innerCallbacks EXCEPT ![appCur] = <<>>]
    /\ innerExitCalls' = [innerExitCalls EXCEPT ![appCur] = @ + 1]
    /\ appCur' = 0
    /\ appMode' = "none"
    /\ appPc' = "body"
    /\ UNCHANGED <<appStarted, innerNext, openLog, outer_exc, outer_details,
                   outer_received, outer_pending, inner_thrown, inner_details,
                   inner_received, inner_pending, appSurfaced>>
AppYield ==
    /\ appPc = "app_body"
    /\ UNCHANGED nonNest
    /\ innerNext = AppRes
    /\ appAcquireLog' = Append(appAcquireLog, appCur)
    /\ outerCallbacks' = Append(outerCallbacks, appCur)
    /\ appCur' = 0
    /\ appMode' = "none"
    /\ appPc' = "body"
    /\ UNCHANGED <<appStarted, innerNext, innerCallbacks, innerExitCalls,
                   openLog, closeLog, outer_exc, outer_details, outer_received,
                   outer_pending, inner_thrown, inner_details, inner_received,
                   inner_pending, appSurfaced>>

\* A statement of the outer body raises.
OuterBodyFail ==
    /\ appPc = "body"
    /\ UNCHANGED nonNest
    /\ outer_exc' = <<NestBodyExc>>
    /\ appPc' = "leaving"
    /\ UNCHANGED <<appCur, appMode, appStarted, appAcquireLog, innerNext,
                   outerCallbacks, innerCallbacks, innerExitCalls, openLog,
                   closeLog, outer_details, outer_received, outer_pending,
                   inner_thrown, inner_details, inner_received, inner_pending,
                   appSurfaced>>

\* The outer body runs off its end after entering both applications.
OuterBodyReturn ==
    /\ appPc = "body"
    /\ UNCHANGED nonNest
    /\ appStarted = NumApps
    /\ outer_exc' = <<>>
    /\ appPc' = "leaving"
    /\ UNCHANGED <<appCur, appMode, appStarted, appAcquireLog, innerNext,
                   outerCallbacks, innerCallbacks, innerExitCalls, openLog,
                   closeLog, outer_details, outer_received, outer_pending,
                   inner_thrown, inner_details, inner_received, inner_pending,
                   appSurfaced>>

\* The outer with statement calls the outer stack's __aexit__.
OuterExitCall ==
    /\ appPc = "leaving"
    /\ UNCHANGED nonNest
    /\ outer_details' = outer_exc
    /\ outer_received' = (outer_exc # <<>>)
    /\ outer_pending' = FALSE
    /\ appPc' = "teardown"
    /\ UNCHANGED <<appCur, appMode, appStarted, appAcquireLog, innerNext,
                   outerCallbacks, innerCallbacks, innerExitCalls, openLog,
                   closeLog, outer_exc, inner_thrown, inner_details,
                   inner_received, inner_pending, appSurfaced>>

\* The outer loop pops the last application and calls its __aexit__ with
\* exc_details: the generator is resumed (or thrown into) at its yield, its
\* finally block runs, and control leaves its `async with`, which calls the
\* inner stack's __aexit__ with the same exception.
AppReleaseStart ==
    /\ appPc = "teardown"
    /\ UNCHANGED nonNest
    /\ outerCallbacks # <<>>
    /\ outerCallbacks' = Pop(outerCallbacks).rest
    /\ appCur' = Pop(outerCallbacks).item
    /\ appMode' = "exit"
    /\ closeLog' = Append(closeLog, <<Pop(outerCallbacks).item, 0>>)
    /\ inner_thrown' = outer_details
    /\ inner_details' = outer_details
    /\ inner_received' = (outer_details # <<>>)
    /\ inner_pending' = FALSE
    /\ innerExitCalls' =
          [innerExitCalls EXCEPT ![Pop(outerCallbacks).item] = @ + 1]
    /\ appPc' = "app_teardown"
    /\ UNCHANGED <<appStarted, appAcquireLog, innerNext, innerCallbacks,
                   openLog, outer_exc, outer_details, outer_received,
                   outer_pending, appSurfaced>>

\* One turn of the inner loop up to the resource's closing sleep.
InnerReleaseStart ==
    /\ appPc = "app_teardown"
    /\ UNCHANGED nonNest
    /\ innerCallbacks[appCur] # <<>>
    /\ innerCallbacks' =
          [innerCallbacks EXCEPT ![appCur] = Pop(innerCallbacks[appCur]).rest]
    /\ closeLog' =
          Append(closeLog, <<appCur, Pop(innerCallbacks[appCur]).item>>)
    /\ innerNext' = Pop(innerCallbacks[appCur]).item
    /\ appPc' = "app_releasing"
    /\ UNCHANGED <<appCur, appMode, appStarted, appAcquireLog, outerCallbacks,
                   innerExitCalls, openLog, outer_exc, outer_details,
                   outer_received, outer_pending, inner_thrown, inner_details,
                   inner_received, inner_pending, appSurfaced>>

\* The resource's finally block completes: its __aexit__ returns a false value.
InnerReleaseOk ==
    /\ appPc = "app_releasing"
    /\ UNCHANGED nonNest
    /\ appPc' = "app_teardown"
    /\ UNCHANGED <<appCur, appMode, appStarted, appAcquireLog, innerNext,
                   outerCallbacks, innerCallbacks, innerExitCalls, openLog,
                   closeLog, outer_exc, outer_details, outer_received,
                   outer_pending, inner_thrown, inner_details, inner_received,
                   inner_pending, appSurfaced>>

\* The resource's finally block raises: the inner loop chains and goes on.
InnerReleaseFail ==
    /\ appPc = "app_releasing"
    /\ UNCHANGED nonNest
    /\ inner_details' = <<AppRelExc(appCur, innerNext)>> \o inner_details
    /\ inner_pending' = TRUE
    /\ appPc' = "app_teardown"
    /\ UNCHANGED <<appCur, appMode, appStarted, appAcquireLog, innerNext,
                   outerCallbacks, innerCallbacks, innerExitCalls, openLog,
                   closeLog, outer_exc, outer_details, outer_received,
                   outer_pending, inner_thrown, inner_received, appSurfaced>>

\* The inner __aexit__ ends while the application is being entered: what it
\* raises leaves application_context's __aenter__ and the outer
\* enter_async_context, into the outer body; nothing is pushed.
InnerExitReturnEntering ==
    /\ appPc = "app_teardown"
    /\ UNCHANGED nonNest
    /\ appMode = "enter"
    /\ innerCallbacks[appCur] = <<>>
    /\ outer_exc' = ExitOutcome(inner_pending, inner_received, inner_details,
                                inner_thrown)
    /\ appCur' = 0
    /\ appMode' = "none"
    /\ appPc' = "leaving"
    /\ UNCHANGED <<appStarted, appAcquireLog, innerNext, outerCallbacks,
                   innerCallbacks, innerExitCalls, openLog, closeLog,
                   outer_details, outer_received, outer_pending, inner_thrown,
                   inner_details, inner_received, inner_pending, appSurfaced>>

\* The inner __aexit__ ends while the outer stack is releasing the
\* application: a new exception leaves the application's __aexit__ and is
\* chained by the outer loop; otherwise the generator ends with what was
\* thrown into it, its __aexit__ returns False and the outer exc_details stay.
InnerExitReturnExiting ==
    /\ appPc = "app_teardown"
    /\ UNCHANGED nonNest
    /\ appMode = "exit"
    /\ innerCallbacks[appCur] = <<>>
    /\ IF inner_pending
       THEN /\ outer_details' = ExitOutcome(inner_pending, inner_received,
                                            inner_details, inner_thrown)
            /\ outer_pending' = TRUE
       ELSE UNCHANGED <<outer_details, outer_pending>>
    /\ appCur' = 0
    /\ appMode' = "none"
    /\ appPc' = "teardown"
    /\ UNCHANGED <<appStarted, appAcquireLog, innerNext, outerCallbacks,
                   innerCallbacks, innerExitCalls, openLog, closeLog, outer_exc,
                   outer_received, inner_thrown, inner_details, inner_received,
                   inner_pending, appSurfaced>>

\* The outer loop finds its callbacks empty and the outer __aexit__ ends.
OuterExitReturn ==
    /\ appPc = "teardown"
    /\ UNCHANGED nonNest
    /\ outerCallbacks = <<>>
    /\ appSurfaced' = ExitOutcome(outer_pending, outer_received, outer_details,
                                  outer_exc)
    /\ appPc' = "done"
    /\ UNCHANGED <<appCur, appMode, appStarted, appAcquireLog, innerNext,
                   outerCallbacks, innerCallbacks, innerExitCalls, openLog,
                   closeLog, outer_exc, outer_details, outer_received,
                   outer_pending, inner_thrown, inner_details, inner_received,
                   inner_pending>>

(***************************************************************************)
(* smart_session: a @contextmanager generator that sets the context        *)
(* variables current_session and current_model on entry and resets them    *)
(* with the tokens of the two set calls in its finally block.              *)
(*                                                                         *)
(* A ContextVar is <<>> while unset and <<v>> once set to v; get() returns *)
(* the default while it is unset.  A token keeps what the variable held    *)
(* before the set (<<>> is Token.MISSING).  A session dict is referred to  *)
(* by its index in sessions; the reference 0 is None.                      *)
(***************************************************************************)
None == 0
DefaultModel == "gpt-3.5-turbo"
SessionIds == {"outer-session", "inner-session"}
Models == {"gpt-4", "gpt-3.5-turbo"}
Prompts == {"Outer session"}

ContextVarGet(var, default) == IF var = <<>> THEN default ELSE var[1]

ContextVarSet(var, value) ==
    [var |-> <<value>>, token |-> [old_value |-> var]]

ContextVarResetMutUnset(token) == <<>>
ContextVarReset(token) == token.old_value

SessionGet == ContextVarGet(current_session, None)
ModelGet == ContextVarGet(current_model, DefaultModel)

NoFrame ==
    [session |-> None,
     session_token |-> [old_value |-> <<>>],
     model_token |-> [old_value |-> <<>>],
     atEntry |-> [session |-> None, model |-> DefaultModel]]

InitSess ==
    /\ current_session = <<>>
    /\ current_model = <<>>
    /\ sessions = <<>>
    /\ openSessions = <<>>
    /\ sessRaising = FALSE
    /\ sessOp = "init"
    /\ sessExited = NoFrame
    /\ llmCalls = 0

\* with smart_session(session_id, model): the generator runs to its yield.
SessionEnter(session_id, model) ==
    /\ ~sessRaising
    /\ Len(sessions) < MaxSessions
    /\ LET ref == Len(sessions) + 1
           session == [id |-> session_id, calls |-> <<>>, model |-> model]
           session_set == ContextVarSet(current_session, ref)
           model_set == ContextVarSet(current_model, model)
       IN  /\ sessions' = Append(sessions, session)
           /\ current_session' = session_set.var
           /\ current_model' = model_set.var
           /\ openSessions' =
                 Append(openSessions,
                        [session |-> ref,
                         session_token |-> session_set.token,
                         model_token |-> model_set.token,
                         atEntry |-> [session |-> SessionGet,
                                      model |-> ModelGet]])
    /\ sessOp' = "enter"
    /\ UNCHANGED <<sessRaising, sessExited, llmCalls>>
    /\ UNCHANGED nonSess

\* smart_llm_call(prompt), called in the body of the innermost open session
\* or outside every session.
SmartLlmCallMutOuter(prompt) ==
    /\ ~sessRaising
    /\ llmCalls < MaxCalls
    /\ LET model == ModelGet
       IN  IF openSessions # <<>>
           THEN sessions' = [sessions EXCEPT ![openSessions[1].session].calls =
                                Append(@, [prompt |-> prompt, model |-> model])]
           ELSE UNCHANGED sessions
    /\ llmCalls' = llmCalls + 1
    /\ sessOp' = "call"
    /\ UNCHANGED <<current_session, current_model, openSessions, sessRaising,
                   sessExited>>
    /\ UNCHANGED nonSess
SmartLlmCall(prompt) ==
    /\ ~sessRaising
    /\ llmCalls < MaxCalls
    /\ LET session == SessionGet
           model == ModelGet
       IN  IF session # None
           THEN sessions' = [sessions EXCEPT ![session].calls =
                                Append(@, [prompt |-> prompt, model |-> model])]
           ELSE UNCHANGED sessions
    /\ llmCalls' = llmCalls + 1
    /\ sessOp' = "call"
    /\ UNCHANGED <<current_session, current_model, openSessions, sessRaising,
                   sessExited>>
    /\ UNCHANGED nonSess

\* The body of the innermost open session raises.
SessBodyRaise ==
    /\ ~sessRaising
    /\ openSessions # <<>>
    /\ sessRaising' = TRUE
    /\ sessOp' = "raise"
    /\ UNCHANGED <<current_session, current_model, sessions, openSessions,
                   sessExited, llmCalls>>
    /\ UNCHANGED nonSess

\* The innermost with statement is left, by the end of its body or by the
\* exception that is propagating: the generator's finally block runs.
SessionExit ==
    /\ openSessions # <<>>
    /\ LET frame == openSessions[Len(openSessions)]
       IN  /\ current_session' = ContextVarReset(frame.session_token)
           /\ current_model' = ContextVarReset(frame.model_token)
           /\ sessExited' = frame
    /\ openSessions' = SubSeq(openSessions, 1, Len(openSessions) - 1)
    /\ sessOp' = "exit"
    /\ UNCHANGED <<sessions, sessRaising, llmCalls>>
    /\ UNCHANGED nonSess

(***************************************************************************)
(* temp_config: a @contextmanager generator that reads config.get(key),    *)
(* stores value under key, and in its finally block stores what it read.   *)
(* A dict is the function from the keys it holds to their values.          *)
(***************************************************************************)
PyNone == "None"
ConfigKeys == {"debug", "model"}
ConfigValues == {"True", "False"}

\* dict.get(key): the value, or None when the dict does not hold the key.
DictGet(d, key) == IF key \in DOMAIN d THEN d[key] ELSE PyNone

\* d[key] = value
DictSet(d, key, value) ==
    [k \in DOMAIN d \cup {key} |-> IF k = key THEN value ELSE d[k]]

\* The dicts over ConfigKeys; a value may be None.
Configs ==
    UNION {[D -> ConfigValues \cup {PyNone}] : D \in SUBSET ConfigKeys}

NoConfigFrame == [key |-> "", original |-> PyNone, before |-> <<>>]

InitCfg ==
    /\ config \in Configs
    /\ cfgFrames = <<>>
    /\ cfgRaising = FALSE
    /\ cfgOp = "init"
    /\ cfgExited = NoConfigFrame

InitCfgIdle ==
    /\ config = <<>>
    /\ cfgFrames = <<>>
    /\ cfgRaising = FALSE
    /\ cfgOp = "init"
    /\ cfgExited = NoConfigFrame

\* with temp_config(config, key, value): the generator runs to its yield.
\* The frame keeps the local `original`, and the dict as it was at entry.
TempConfigEnter(key, value) ==
    /\ ~cfgRaising
    /\ Len(cfgFrames) < MaxConfigDepth
    /\ LET original == DictGet(config, key)
       IN  cfgFrames' = Append(cfgFrames, [key |-> key,
                                           original |-> original,
                                           before |-> config])
    /\ config' = DictSet(config, key, value)
    /\ cfgOp' = "enter"
    /\ UNCHANGED <<cfgRaising, cfgExited>>
    /\ UNCHANGED nonCfg

\* The body of the innermost with statement raises.
CfgBodyRaise ==
    /\ ~cfgRaising
    /\ cfgFrames # <<>>
    /\ cfgRaising' = TRUE
    /\ cfgOp' = "raise"
    /\ UNCHANGED <<config, cfgFrames, cfgExited>>
    /\ UNCHANGED nonCfg

\* The innermost with statement is left, by the end of its body or by the
\* exception that is propagating: the generator's finally block runs.
TempConfigExit ==
    /\ cfgFrames # <<>>
    /\ LET frame == cfgFrames[Len(cfgFrames)]
       IN  /\ config' = DictSet(config, frame.key, frame.original)
           /\ cfgExited' = frame
    /\ cfgFrames' = SubSeq(cfgFrames, 1, Len(cfgFrames) - 1)
    /\ cfgOp' = "exit"
    /\ UNCHANGED cfgRaising
    /\ UNCHANGED nonCfg

(***************************************************************************)
(* AIClient and LLMClient: the chat history and the methods that change    *)
(* it.  A method is an operator from the history at the call to the        *)
(* history at its end and whether it raised.  The outcome of a call is     *)
(* "ok" (the provider answered), "api_error" (the request raised) or, for  *)
(* LLMClient.chat, "config_error" (get_provider_config raised before the   *)
(* user message was added).                                                *)
(***************************************************************************)
ClientKinds == {"AIClient", "LLMClient"}
Queries == {"q1", "q2"}
Reply(query) == IF query = "q1" THEN "a1" ELSE "a2"

Outcomes(kind) ==
    IF kind = "AIClient"
    THEN {"ok", "api_error"}
    ELSE {"ok", "api_error", "config_error"}

\* add_message(role, content)
AddMessage(history, role, content) ==
    Append(history, [role |-> role, content |-> content])

\* clear_history()
ClearHistory(history) == <<>>

\* AIClient.generate_text(prompt)
GenerateText(history, prompt, outcome) ==
    LET sent == AddMessage(ClearHistory(history), "user", prompt)
    IN  IF outcome = "ok"
        THEN [history |-> AddMessage(sent, "assistant", Reply(prompt)),
              raised |-> FALSE]
        ELSE [history |-> sent, raised |-> TRUE]

\* AIClient.chat(user_message) / LLMClient.chat(user_message)
ChatMutTransactional(kind, history, user_message, outcome) ==
    IF outcome = "ok"
    THEN [history |-> AddMessage(AddMessage(history, "user", user_message),
                                 "assistant", Reply(user_message)),
          raised |-> FALSE]
    ELSE [history |-> history, raised |-> TRUE]
Chat(kind, history, user_message, outcome) ==
    IF kind = "LLMClient" /\ outcome = "config_error"
    THEN [history |-> history, raised |-> TRUE]
    ELSE LET sent == AddMessage(history, "user", user_message)
         IN  IF outcome = "ok"
             THEN [history |-> AddMessage(sent, "assistant", Reply(user_message)),
                   raised |-> FALSE]
             ELSE [history |-> sent, raised |-> TRUE]

\* AIClient.simple_query(query) / LLMClient.simple_query(query)
SimpleQueryMutNoRestore(kind, history, query, outcome) ==
    LET cleared == ClearHistory(history)
    IN  IF kind = "AIClient"
        THEN GenerateText(cleared, query, outcome)
        ELSE Chat(kind, cleared, query, outcome)
SimpleQuery(kind, history, query, outcome) ==
    LET original_history == history
        cleared == ClearHistory(history)
        inner == IF kind = "AIClient"
                 THEN GenerateText(cleared, query, outcome)
                 ELSE Chat(kind, cleared, query, outcome)
    IN  [history |-> original_history, raised |-> inner.raised]

\* Sampling parameters are in hundredths; an Optional argument is <<>> for
\* None and <<v>> for the value v.
DEFAULT_TEMPERATURE == 70
DEFAULT_TOP_P == 95
LLM_DEFAULT_TEMPERATURE == 30
OptArgs == {<<>>, <<0>>, <<50>>}
NoArgs == [temperature |-> <<>>, top_p |-> <<>>]

\* The defaults the provider config of a client holds.  Those of LLMClient
\* come from a Config class; LLMConfig's own defaults stand for them.
ConfigDefaults(kind) ==
    IF kind = "AIClient"
    THEN [temperature |-> DEFAULT_TEMPERATURE, top_p |-> DEFAULT_TOP_P]
    ELSE [temperature |-> LLM_DEFAULT_TEMPERATURE, top_p |-> DEFAULT_TOP_P]

\* Python's `argument or default`: the default unless the argument is truthy.
\* None and 0 are falsy.
PyOr(argument, default) ==
    IF argument # <<>> /\ argument[1] # 0 THEN argument[1] ELSE default

\* temp = temperature or config["temperature"]; tp = top_p or config["top_p"]
RequestParams(kind, temperature, top_p) ==
    [temperature |-> PyOr(temperature, ConfigDefaults(kind).temperature),
     top_p       |-> PyOr(top_p, ConfigDefaults(kind).top_p)]

\* The request a call sends: none when the config lookup raised first.
Sent(kind, temperature, top_p, outcome) ==
    IF outcome = "config_error"
    THEN <<>>
    ELSE <<RequestParams(kind, temperature, top_p)>>

\* Provider names a caller asks for; "mistral" is not in the table.  An api
\* key is "" when the environment gives none (None) and when no override is
\* passed.
Supported == {"gemini", "openai"}
ProviderNames == Supported \cup {"mistral"}
EnvKeys == {"", "env-key"}
KeyOverrides == {"", "override-key"}
NoClient == [api_key |-> "", base_url |-> ""]
NoConfig == [provider |-> "", api_key |-> ""]

\* get_provider_config(provider): a copy of the table's entry; the fields
\* other than api_key (base_url, model, ...) are named by the provider.
\* `shared` tells whether the dict returned is the dict of the table
\* itself, so that an assignment to it is an assignment to the table: the
\* result of .copy() is a new dict, and all its values are immutable.
GetProviderConfigMutNoCopy(table, name) ==
    IF name \notin DOMAIN table
    THEN [raised |-> TRUE, config |-> NoConfig, shared |-> FALSE]
    ELSE IF table[name].api_key = ""
    THEN [raised |-> TRUE, config |-> NoConfig, shared |-> FALSE]
    ELSE [raised |-> FALSE,
          config |-> [provider |-> name, api_key |-> table[name].api_key],
          shared |-> TRUE]
GetProviderConfig(table, name) ==
    IF name \notin DOMAIN table
    THEN [raised |-> TRUE, config |-> NoConfig, shared |-> FALSE]
    ELSE IF table[name].api_key = ""
    THEN [raised |-> TRUE, config |-> NoConfig, shared |-> FALSE]
    ELSE [raised |-> FALSE,
          config |-> [provider |-> name, api_key |-> table[name].api_key],
          shared |-> FALSE]

\* _init_client(api_key_override): what self.config and self.client become,
\* or that it raised before assigning either, and the provider table after
\* the assignment self.config["api_key"] = api_key_override.
InitClientCall(table, name, api_key_override) ==
    LET got == GetProviderConfig(table, name)
        cfg == IF api_key_override # ""
               THEN [got.config EXCEPT !.api_key = api_key_override]
               ELSE got.config
    IN  IF got.raised
        THEN [raised |-> TRUE, config |-> NoConfig, client |-> NoClient,
              table |-> table]
        ELSE [raised |-> FALSE, config |-> cfg,
              client |-> [api_key |-> cfg.api_key, base_url |-> cfg.provider],
              table |-> IF got.shared /\ api_key_override # ""
                        THEN [table EXCEPT ![name].api_key = api_key_override]
                        ELSE table]

\* A client whose constructor returned: AIClient("gemini") with the key of
\* the environment, or LLMClient("gemini"), which holds no config.
InitClient(kinds) ==
    /\ clientKind \in kinds
    /\ chat_history = <<>>
    /\ clientOp = "init"
    /\ clientRaised = FALSE
    /\ prevHistory = <<>>
    /\ callArgs = NoArgs
    /\ request = <<>>
    /\ provider = "gemini"
    /\ overridden = FALSE
    /\ API_PROVIDERS \in {t \in [Supported -> [api_key : EnvKeys]] :
                             t["gemini"].api_key # ""}
    /\ IF clientKind = "AIClient"
       THEN LET r == InitClientCall(API_PROVIDERS, "gemini", "")
            IN  client_config = r.config /\ client = r.client
       ELSE client_config = NoConfig /\ client = NoClient

\* The client of the scenarios that make no call on it.
InitClientIdle ==
    /\ InitClient({"AIClient"})
    /\ \A name \in Supported : API_PROVIDERS[name].api_key = "env-key"

ClientChat(user_message, temperature, top_p, outcome) ==
    /\ Len(chat_history) + 2 <= MaxHistory
    /\ outcome \in Outcomes(clientKind)
    /\ LET r == Chat(clientKind, chat_history, user_message, outcome)
       IN  /\ chat_history' = r.history
           /\ clientRaised' = r.raised
    /\ prevHistory' = chat_history
    /\ clientOp' = "chat"
    /\ callArgs' = [temperature |-> temperature, top_p |-> top_p]
    /\ request' = Sent(clientKind, temperature, top_p, outcome)
    /\ UNCHANGED <<clientKind, provider, client_config, client, API_PROVIDERS,
                   overridden>>
    /\ UNCHANGED nonClient

ClientGenerateText(prompt, temperature, top_p, outcome) ==
    /\ clientKind = "AIClient"
    /\ outcome \in Outcomes(clientKind)
    /\ LET r == GenerateText(chat_history, prompt, outcome)
       IN  /\ chat_history' = r.history
           /\ clientRaised' = r.raised
    /\ prevHistory' = chat_history
    /\ clientOp' = "generate_text"
    /\ callArgs' = [temperature |-> temperature, top_p |-> top_p]
    /\ request' = Sent(clientKind, temperature, top_p, outcome)
    /\ UNCHANGED <<clientKind, provider, client_config, client, API_PROVIDERS,
                   overridden>>
    /\ UNCHANGED nonClient

ClientClearHistory ==
    /\ chat_history' = ClearHistory(chat_history)
    /\ clientRaised' = FALSE
    /\ prevHistory' = chat_history
    /\ clientOp' = "clear_history"
    /\ callArgs' = NoArgs
    /\ request' = <<>>
    /\ UNCHANGED <<clientKind, provider, client_config, client, API_PROVIDERS,
                   overridden>>
    /\ UNCHANGED nonClient

ClientSimpleQuery(query, outcome) ==
    /\ outcome \in Outcomes(clientKind)
    /\ LET r == SimpleQuery(clientKind, chat_history, query, outcome)
       IN  /\ chat_history' = r.history
           /\ clientRaised' = r.raised
    /\ prevHistory' = chat_history
    /\ clientOp' = "simple_query"
    /\ callArgs' = NoArgs
    /\ request' = Sent(clientKind, <<>>, <<>>, outcome)
    /\ UNCHANGED <<clientKind, provider, client_config, client, API_PROVIDERS,
                   overridden>>
    /\ UNCHANGED nonClient

\* AIClient.switch_provider(provider, api_key)
ClientSwitchProviderMutClear(name, api_key) ==
    /\ clientKind = "AIClient"
    /\ provider' = name
    /\ LET r == InitClientCall(API_PROVIDERS, name, api_key)
       IN  /\ clientRaised' = r.raised
           /\ client_config' = IF r.raised THEN client_config ELSE r.config
           /\ client' = IF r.raised THEN client ELSE r.client
           /\ API_PROVIDERS' = r.table
    /\ overridden' = (overridden \/ api_key # "")
    /\ chat_history' = <<>>
    /\ prevHistory' = chat_history
    /\ clientOp' = "switch_provider"
    /\ callArgs' = NoArgs
    /\ request' = <<>>
    /\ UNCHANGED clientKind
    /\ UNCHANGED nonClient
ClientSwitchProviderMutAtomic(name, api_key) ==
    /\ clientKind = "AIClient"
    /\ LET r == InitClientCall(API_PROVIDERS, name, api_key)
       IN  /\ clientRaised' = r.raised
           /\ provider' = IF r.raised THEN provider ELSE name
           /\ client_config' = IF r.raised THEN client_config ELSE r.config
           /\ client' = IF r.raised THEN client ELSE r.client
           /\ API_PROVIDERS' = r.table
    /\ overridden' = (overridden \/ api_key # "")
    /\ prevHistory' = chat_history
    /\ clientOp' = "switch_provider"
    /\ callArgs' = NoArgs
    /\ request' = <<>>
    /\ UNCHANGED <<clientKind, chat_history>>
    /\ UNCHANGED nonClient
ClientSwitchProvider(name, api_key) ==
    /\ clientKind = "AIClient"
    /\ provider' = name
    /\ LET r == InitClientCall(API_PROVIDERS, name, api_key)
       IN  /\ clientRaised' = r.raised
           /\ client_config' = IF r.raised THEN client_config ELSE r.config
           /\ client' = IF r.raised THEN client ELSE r.client
           /\ API_PROVIDERS' = r.table
    /\ overridden' = (overridden \/ api_key # "")
    /\ prevHistory' = chat_history
    /\ clientOp' = "switch_provider"
    /\ callArgs' = NoArgs
    /\ request' = <<>>
    /\ UNCHANGED <<clientKind, chat_history>>
    /\ UNCHANGED nonClient

\* AIClient(provider, api_key): a new client object takes the place of the
\* one held.  When the constructor raises there is no new object, and the
\* client held is the old one.
ClientConstruct(name, api_key) ==
    /\ clientKind = "AIClient"
    /\ LET r == InitClientCall(API_PROVIDERS, name, api_key)
       IN  /\ clientRaised' = r.raised
           /\ provider' = IF r.raised THEN provider ELSE name
           /\ chat_history' = IF r.raised THEN chat_history ELSE <<>>
           /\ client_config' = IF r.raised THEN client_config ELSE r.config
           /\ client' = IF r.raised THEN client ELSE r.client
           /\ API_PROVIDERS' = r.table
    /\ overridden' = (overridden \/ api_key # "")
    /\ prevHistory' = chat_history
    /\ clientOp' = IF api_key = "" THEN "AIClient(provider)"
                                   ELSE "AIClient(provider, api_key)"
    /\ callArgs' = NoArgs
    /\ request' = <<>>
    /\ UNCHANGED clientKind
    /\ UNCHANGED nonClient

(***************************************************************************)
(* llm_session: a @contextmanager generator with try / except Exception /  *)
(* finally around its yield, and add_message, which the body calls on the  *)
(* session dict.  A message content is given by its length.  An exception  *)
(* is named by its class: ValueError is an Exception, KeyboardInterrupt is *)
(* a BaseException that `except Exception` does not catch.                 *)
(***************************************************************************)
LlmSessionIds == {"chat-001", "error-demo"}
TokenLimits == {5, 100}
Roles == {"user", "assistant"}
ContentLengths == {3, 12, 50}
BodyExceptions == {"ValueError", "KeyboardInterrupt"}
IsException(e) == e = "ValueError"

NoSession == [id |-> "", messages |-> <<>>, tokens |-> 0, max_tokens |-> 0]

InitLlm ==
    /\ llmSession = NoSession
    /\ llmPc = "idle"
    /\ llmBody = "running"
    /\ llmOutput = <<>>
    /\ llmRaised = "none"

\* with llm_session(session_id, max_tokens): the generator runs to its yield.
LlmSessionEnter(session_id, max_tokens) ==
    /\ llmPc \in {"idle", "done"}
    /\ llmSession' = [id |-> session_id, messages |-> <<>>, tokens |-> 0,
                   max_tokens |-> max_tokens]
    /\ llmOutput' = <<"starting">>
    /\ llmBody' = "running"
    /\ llmRaised' = "none"
    /\ llmPc' = "body"
    /\ UNCHANGED nonLlm

\* add_message(session, role, content), called by the body.
LlmAddMessageMutReject(role, length) ==
    /\ llmPc = "body"
    /\ Len(llmSession.messages) < MaxMessages
    /\ LET tokens == length \div 4
           total == llmSession.tokens + tokens
       IN  /\ llmSession' = IF total > llmSession.max_tokens
                             THEN llmSession
                             ELSE [llmSession EXCEPT
                                   !.messages = Append(@, [role |-> role,
                                                           content |-> length]),
                                   !.tokens = total]
           /\ llmOutput' = llmOutput \o
                              (IF total > llmSession.max_tokens
                               THEN <<"limit exceeded">> ELSE <<>>) \o
                              <<"message">>
    /\ UNCHANGED <<llmPc, llmBody, llmRaised>>
    /\ UNCHANGED nonLlm
LlmAddMessage(role, length) ==
    /\ llmPc = "body"
    /\ Len(llmSession.messages) < MaxMessages
    /\ LET tokens == length \div 4
           total == llmSession.tokens + tokens
       IN  /\ llmSession' = [llmSession EXCEPT
                             !.messages = Append(@, [role |-> role,
                                                     content |-> length]),
                             !.tokens = total]
           /\ llmOutput' = llmOutput \o
                              (IF total > llmSession.max_tokens
                               THEN <<"limit exceeded">> ELSE <<>>) \o
                              <<"message">>
    /\ UNCHANGED <<llmPc, llmBody, llmRaised>>
    /\ UNCHANGED nonLlm

\* The body ends, by completing ("return") or by raising; the with statement
\* resumes the generator, which prints, runs its finally block and either
\* stops or lets the exception go on to the caller.
LlmSessionExitMutSwallow(outcome) ==
    /\ llmPc = "body"
    /\ llmBody' = outcome
    /\ llmOutput' = llmOutput \o
          (IF outcome = "return" THEN <<"completed">>
           ELSE IF IsException(outcome) THEN <<"error">> ELSE <<>>) \o
          <<"stats">>
    /\ llmRaised' = IF IsException(outcome) THEN "none"
                    ELSE IF outcome = "return" THEN "none" ELSE outcome
    /\ llmPc' = "done"
    /\ UNCHANGED llmSession
    /\ UNCHANGED nonLlm
LlmSessionExit(outcome) ==
    /\ llmPc = "body"
    /\ llmBody' = outcome
    /\ llmOutput' = llmOutput \o
          (IF outcome = "return" THEN <<"completed">>
           ELSE IF IsException(outcome) THEN <<"error">> ELSE <<>>) \o
          <<"stats">>
    /\ llmRaised' = IF outcome = "return" THEN "none" ELSE outcome
    /\ llmPc' = "done"
    /\ UNCHANGED llmSession
    /\ UNCHANGED nonLlm

(***************************************************************************)
(* production_mcp_integration: five services are entered into one          *)
(* AsyncExitStack, three workload tasks are created and the owner awaits   *)
(* asyncio.gather with return_exceptions=True.  A task runs from one   *)
(* await to the next without interruption; a workload awaits only inside   *)
(* call_tool (asyncio.sleep), after call_tool has checked `connected`.     *)
(* cancel() on the owner while it waits in gather cancels the children;    *)
(* the owner is resumed when all of them are done.                         *)
(***************************************************************************)
NumServices == 5
NumTasks == 3
Services == 1..NumServices
Tasks == 1..NumTasks
\* The service of the k-th call_tool of a workload: read_replica, redis,
\* rabbitmq, by their place in the order of the adds.
StepService == <<3, 4, 5>>

InitProd ==
    /\ prodPc = "adding"
    /\ prodConnected = [sv \in Services |-> FALSE]
    /\ prodStack = <<>>
    /\ prodLog = <<>>
    /\ taskPos = [t \in Tasks |-> 0]
    /\ taskEnd = [t \in Tasks |-> "running"]
    /\ cancelRequested = FALSE
    /\ connErrors = {}

\* await stack.enter_async_context(mcp_server_connection(...)) returns.
ProdAdd ==
    /\ prodPc = "adding"
    /\ Len(prodStack) < NumServices
    /\ LET sv == Len(prodStack) + 1
       IN  /\ prodConnected' = [prodConnected EXCEPT ![sv] = TRUE]
           /\ prodStack' = Append(prodStack, sv)
    /\ UNCHANGED <<prodPc, prodLog, taskPos, taskEnd, cancelRequested,
                   connErrors>>
    /\ UNCHANGED nonProd

\* The three create_task calls and `await asyncio.gather(...)`: the owner is
\* suspended, the workload tasks are scheduled.
ProdGather ==
    /\ prodPc = "adding"
    /\ Len(prodStack) = NumServices
    /\ prodPc' = "gathering"
    /\ UNCHANGED <<prodConnected, prodStack, prodLog, taskPos, taskEnd,
                   cancelRequested, connErrors>>
    /\ UNCHANGED nonProd

\* A workload task runs to its next await: the sleep of the call it was in
\* returns (or the task starts), and it either returns, after its third
\* call, or enters the next call_tool, which raises ConnectionError when the
\* service is not connected and otherwise suspends in its sleep.
TaskStep(t) ==
    /\ prodPc \in {"gathering", "teardown", "done"}
    /\ taskEnd[t] = "running"
    /\ IF taskPos[t] = Len(StepService)
       THEN /\ taskEnd' = [taskEnd EXCEPT ![t] = "returned"]
            /\ UNCHANGED <<taskPos, connErrors>>
       ELSE IF prodConnected[StepService[taskPos[t] + 1]]
       THEN /\ taskPos' = [taskPos EXCEPT ![t] = @ + 1]
            /\ UNCHANGED <<taskEnd, connErrors>>
       ELSE /\ taskEnd' = [taskEnd EXCEPT ![t] = "raised"]
            /\ connErrors' = connErrors \cup {t}
            /\ UNCHANGED taskPos
    /\ UNCHANGED <<prodPc, prodConnected, prodStack, prodLog, cancelRequested>>
    /\ UNCHANGED nonProd

\* The await a workload is suspended in raises.
TaskRaise(t) ==
    /\ prodPc \in {"gathering", "teardown", "done"}
    /\ taskEnd[t] = "running"
    /\ taskPos[t] > 0
    /\ taskEnd' = [taskEnd EXCEPT ![t] = "raised"]
    /\ UNCHANGED <<prodPc, prodConnected, prodStack, prodLog, taskPos,
                   cancelRequested, connErrors>>
    /\ UNCHANGED nonProd

\* cancel() is called on the owner while it waits in gather: the gathering
\* future cancels every child that is not done.
ParentCancel ==
    /\ prodPc = "gathering"
    /\ ~cancelRequested
    /\ cancelRequested' = TRUE
    /\ UNCHANGED <<prodPc, prodConnected, prodStack, prodLog, taskPos, taskEnd,
                   connErrors>>
    /\ UNCHANGED nonProd

\* A cancelled child is resumed with CancelledError at its await (or before
\* it has started) and ends.
TaskCancel(t) ==
    /\ cancelRequested
    /\ taskEnd[t] = "running"
    /\ taskEnd' = [taskEnd EXCEPT ![t] = "cancelled"]
    /\ UNCHANGED <<prodPc, prodConnected, prodStack, prodLog, taskPos,
                   cancelRequested, connErrors>>
    /\ UNCHANGED nonProd

\* All children are done: the gathering future completes and the owner is
\* resumed, with the results or with CancelledError; it leaves the block and
\* __aexit__ is called.
GatherDoneMutFirst ==
    /\ prodPc = "gathering"
    /\ \E t \in Tasks : taskEnd[t] # "running"
    /\ prodPc' = "teardown"
    /\ UNCHANGED <<prodConnected, prodStack, prodLog, taskPos, taskEnd,
                   cancelRequested, connErrors>>
    /\ UNCHANGED nonProd
GatherDone ==
    /\ prodPc = "gathering"
    /\ \A t \in Tasks : taskEnd[t] # "running"
    /\ prodPc' = "teardown"
    /\ UNCHANGED <<prodConnected, prodStack, prodLog, taskPos, taskEnd,
                   cancelRequested, connErrors>>
    /\ UNCHANGED nonProd

\* __aexit__ pops the next callback: the service is disconnected.
ProdDisconnect ==
    /\ prodPc = "teardown"
    /\ prodStack # <<>>
    /\ LET sv == Pop(prodStack).item
       IN  /\ prodLog' = Append(prodLog, sv)
           /\ prodConnected' = [prodConnected EXCEPT ![sv] = FALSE]
    /\ prodStack' = Pop(prodStack).rest
    /\ prodPc' = IF Len(prodStack) = 1 THEN "done" ELSE "teardown"
    /\ UNCHANGED <<taskPos, taskEnd, cancelRequested, connErrors>>
    /\ UNCHANGED nonProd

(***************************************************************************)
(* bad_example_without_context_manager: three sessions are created, then   *)
(* connected and used inside try / except Exception, and disconnected by   *)
(* three if statements after the try statement.  Every connect, call_tool  *)
(* and disconnect suspends in asyncio.sleep before it assigns `connected`  *)
(* or returns; what is thrown into a suspended await is a failure of the   *)
(* awaited operation or the CancelledError of a cancel() of the task.      *)
(* MockMCPSession stands for a client of a server ("in real use, import    *)
(* from mcp library"): a server is up, or refuses the connection, or       *)
(* fails when the session is closed.                                       *)
(***************************************************************************)
ManSessions == 1..3
ServerKinds == {"up", "refuses", "breaks"}
AllUp == [k \in ManSessions |-> "up"]
\* What an await can raise: an Exception of the awaited operation, or
\* CancelledError, a BaseException that `except Exception` does not catch.
AwaitFailures == {"OSError", "CancelledError"}
CaughtByExcept(e) == e # "CancelledError"

InitMan(servers) ==
    /\ manServer \in servers
    /\ manPc = "try"
    /\ manStep = 1
    /\ manSuspended = FALSE
    /\ manConnected = [k \in ManSessions |-> FALSE]
    /\ manOutput = <<>>
    /\ manRaised = "none"

\* The function runs to its next await: connect() or call_tool() in the try
\* block suspends in its sleep; in the cleanup an if statement either skips a
\* session that is not connected or suspends in the sleep of disconnect().
ManRun ==
    /\ manPc \in {"try", "cleanup"}
    /\ ~manSuspended
    /\ IF manPc = "cleanup" /\ ~manConnected[manStep]
       THEN /\ manPc' = IF manStep = 3 THEN "done" ELSE "cleanup"
            /\ manStep' = IF manStep = 3 THEN manStep ELSE manStep + 1
            /\ UNCHANGED manSuspended
       ELSE /\ manSuspended' = TRUE
            /\ UNCHANGED <<manPc, manStep>>
    /\ UNCHANGED <<manConnected, manServer, manOutput, manRaised>>
    /\ UNCHANGED nonMan

\* The sleep returns.  connect() sets connected; call_tool() returns and the
\* body raises ValueError, which the except clause prints; disconnect()
\* clears connected.
ManResume ==
    /\ manSuspended
    /\ manSuspended' = FALSE
    /\ IF manPc = "try" /\ manStep <= 3
       THEN /\ manConnected' = [manConnected EXCEPT ![manStep] = TRUE]
            /\ manStep' = manStep + 1
            /\ UNCHANGED <<manPc, manOutput>>
       ELSE IF manPc = "try"
       THEN /\ manOutput' = Append(manOutput, "ValueError")
            /\ manPc' = "cleanup"
            /\ manStep' = 1
            /\ UNCHANGED manConnected
       ELSE /\ manConnected' = [manConnected EXCEPT ![manStep] = FALSE]
            /\ manPc' = IF manStep = 3 THEN "done" ELSE "cleanup"
            /\ manStep' = IF manStep = 3 THEN manStep ELSE manStep + 1
            /\ UNCHANGED manOutput
    /\ UNCHANGED <<manRaised, manServer>>
    /\ UNCHANGED nonMan

\* The await the function is suspended in raises e.  In the try block an
\* Exception is printed by the except clause and the cleanup follows;
\* anything else, and anything raised in the cleanup, ends the function.
ManAwaitRaisesMutSwallow(e) ==
    /\ manSuspended
    /\ manSuspended' = FALSE
    /\ IF manPc = "try"
       THEN /\ manOutput' = Append(manOutput, e)
            /\ manPc' = "cleanup"
            /\ manStep' = 1
       ELSE /\ manPc' = "done"
            /\ UNCHANGED <<manStep, manOutput>>
    /\ UNCHANGED <<manRaised, manConnected, manServer>>
    /\ UNCHANGED nonMan
ManAwaitRaises(e) ==
    /\ manSuspended
    /\ \/ e = "CancelledError"
       \/ /\ e = "OSError"
          /\ manStep <= 3
          /\ manServer[manStep] = IF manPc = "try" THEN "refuses" ELSE "breaks"
    /\ manSuspended' = FALSE
    /\ IF manPc = "try" /\ CaughtByExcept(e)
       THEN /\ manOutput' = Append(manOutput, e)
            /\ manPc' = "cleanup"
            /\ manStep' = 1
            /\ UNCHANGED manRaised
       ELSE /\ manPc' = "done"
            /\ manRaised' = e
            /\ UNCHANGED <<manStep, manOutput>>
    /\ UNCHANGED <<manConnected, manServer>>
    /\ UNCHANGED nonMan

(***************************************************************************)
(* Specifications                                                          *)
(***************************************************************************)

\* One scope with up to MaxRes resources.
Init ==
    /\ InitFlat(0..MaxRes)
    /\ InitNest
    /\ InitSess
    /\ InitCfgIdle
    /\ InitClientIdle
    /\ InitLlm
    /\ InitProd
    /\ InitMan({AllUp})

Next ==
    \/ AddStart
    \/ AcquireOk
    \/ AcquireFail
    \/ CancelInAcquire
    \/ CancelInBody
    \/ BodyFail
    \/ BodyReturn
    \/ AExitCall
    \/ ReleaseStart
    \/ ReleaseOk
    \/ ReleaseFail
    \/ AExitReturn
    \/ ExitAgain

Spec == Init /\ [][Next]_vars

\* The scope under the scheduling of one task: the interpreter calls
\* __aexit__ when the block is left, __aexit__ runs its loop and returns,
\* and a disconnect that was awaited terminates, by returning or by raising.
Fairness ==
    /\ WF_vars(AExitCall)
    /\ WF_vars(ReleaseStart)
    /\ WF_vars(ReleaseOk \/ ReleaseFail)
    /\ WF_vars(AExitReturn)

SpecLive == Init /\ [][Next]_vars /\ Fairness

\* MockMCPSession.call_tool: `if not self.connected: raise ConnectionError`.
CallToolRaises(k) == ~connected[k]

\* combined_approach.
InitNested ==
    /\ InitFlat({0})
    /\ InitNest
    /\ InitSess
    /\ InitCfgIdle
    /\ InitClientIdle
    /\ InitLlm
    /\ InitProd
    /\ InitMan({AllUp})

NextNested ==
    \/ AppAddStart
    \/ InnerAddStart
    \/ InnerAcquireOk
    \/ InnerAcquireFail
    \/ AppYield
    \/ OuterBodyFail
    \/ OuterBodyReturn
    \/ OuterExitCall
    \/ AppReleaseStart
    \/ InnerReleaseStart
    \/ InnerReleaseOk
    \/ InnerReleaseFail
    \/ InnerExitReturnEntering
    \/ InnerExitReturnExiting
    \/ OuterExitReturn

SpecNested == InitNested /\ [][NextNested]_vars

\* Nested smart_session scopes.
InitSession ==
    /\ InitFlat({0})
    /\ InitNest
    /\ InitSess
    /\ InitCfgIdle
    /\ InitClientIdle
    /\ InitLlm
    /\ InitProd
    /\ InitMan({AllUp})

NextSession ==
    \/ \E session_id \in SessionIds, model \in Models :
          SessionEnter(session_id, model)
    \/ \E prompt \in Prompts : SmartLlmCall(prompt)
    \/ SessBodyRaise
    \/ SessionExit

SpecSession == InitSession /\ [][NextSession]_vars

\* temp_config scopes on one dict.
InitConfig ==
    /\ InitFlat({0})
    /\ InitNest
    /\ InitSess
    /\ InitCfg
    /\ InitClientIdle
    /\ InitLlm
    /\ InitProd
    /\ InitMan({AllUp})

NextConfig ==
    \/ \E key \in ConfigKeys, value \in ConfigValues :
          TempConfigEnter(key, value)
    \/ CfgBodyRaise
    \/ TempConfigExit

SpecConfig == InitConfig /\ [][NextConfig]_vars

\* One client of either class and the calls made on it.
InitClients ==
    /\ InitFlat({0})
    /\ InitNest
    /\ InitSess
    /\ InitCfgIdle
    /\ InitClient(ClientKinds)
    /\ InitLlm
    /\ InitProd
    /\ InitMan({AllUp})

AllOutcomes == {"ok", "api_error", "config_error"}

NextClient ==
    \/ \E user_message \in Queries, temperature \in OptArgs, top_p \in OptArgs,
          outcome \in AllOutcomes :
          ClientChat(user_message, temperature, top_p, outcome)
    \/ \E prompt \in Queries, temperature \in OptArgs, top_p \in OptArgs,
          outcome \in AllOutcomes :
          ClientGenerateText(prompt, temperature, top_p, outcome)
    \/ ClientClearHistory
    \/ \E query \in Queries, outcome \in AllOutcomes :
          ClientSimpleQuery(query, outcome)
    \/ \E name \in ProviderNames, api_key \in KeyOverrides :
          ClientSwitchProvider(name, api_key)
    \/ \E name \in ProviderNames, api_key \in KeyOverrides :
          ClientConstruct(name, api_key)

SpecClient == InitClients /\ [][NextClient]_vars

\* llm_session scopes, one after another.
InitLlmSession ==
    /\ InitFlat({0})
    /\ InitNest
    /\ InitSess
    /\ InitCfgIdle
    /\ InitClientIdle
    /\ InitLlm
    /\ InitProd
    /\ InitMan({AllUp})

NextLlmSession ==
    \/ \E session_id \in LlmSessionIds, max_tokens \in TokenLimits :
          LlmSessionEnter(session_id, max_tokens)
    \/ \E role \in Roles, length \in ContentLengths :
          LlmAddMessage(role, length)
    \/ \E outcome \in {"return"} \cup BodyExceptions :
          LlmSessionExit(outcome)

SpecLlmSession == InitLlmSession /\ [][NextLlmSession]_vars

\* production_mcp_integration.
InitProduction ==
    /\ InitFlat({0})
    /\ InitNest
    /\ InitSess
    /\ InitCfgIdle
    /\ InitClientIdle
    /\ InitLlm
    /\ InitProd
    /\ InitMan({AllUp})

NextProduction ==
    \/ ProdAdd
    \/ ProdGather
    \/ \E t \in Tasks : TaskStep(t)
    \/ \E t \in Tasks : TaskRaise(t)
    \/ ParentCancel
    \/ \E t \in Tasks : TaskCancel(t)
    \/ GatherDone
    \/ ProdDisconnect

SpecProduction == InitProduction /\ [][NextProduction]_vars

\* bad_example_without_context_manager.
NextManual ==
    \/ ManRun
    \/ ManResume
    \/ \E e \in AwaitFailures : ManAwaitRaises(e)

InitManual ==
    /\ InitFlat({0})
    /\ InitNest
    /\ InitSess
    /\ InitCfgIdle
    /\ InitClientIdle
    /\ InitLlm
    /\ InitProd
    /\ InitMan([ManSessions -> ServerKinds])

SpecManual == InitManual /\ [][NextManual]_vars

TypeOK ==
    /\ n \in 0..MaxRes
    /\ pc \in {"body", "acquiring", "leaving", "teardown", "releasing", "done"}
    /\ cur \in 0..MaxRes
    /\ Range(callbacks) \subseteq Res
    /\ relFailed \subseteq Res
    /\ appPc \in {"body", "app_body", "app_acquiring", "leaving", "teardown",
                  "app_teardown", "app_releasing", "done"}
    /\ appCur \in 0..NumApps
    /\ Range(outerCallbacks) \subseteq Apps

(***************************************************************************)
(* Properties of one scope                                                 *)
(***************************************************************************)

\* Every add of the body was made and succeeded.
AllAcquired == Len(acquireLog) = n /\ Len(connectLog) = n
\* The scope is being left because the body raised / an add raised.
BodyFailed == exc = <<BodyExc>>
AcquireFailed == exc # <<>> /\ exc[1].kind = "acquire"
\* The with statement (and any repeated exit) has ended.
TornDown == pc = "done"
\* The exceptions of a chain that are release failures, as resource ids.
ReleaseIdsIn(chain) == {e.id : e \in {x \in Range(chain) : x.kind = "release"}}
\* The smallest element of a non-empty set of resource ids.
MinOf(S) == CHOOSE x \in S : \A y \in S : x <= y

\* C1: when all N adds succeed, the releases are made in exactly the reverse
\* of the acquisition order: during teardown the releases made so far are the
\* last-acquired resources, latest first, and once the scope has ended the
\* release sequence is the reverse of the acquisition sequence.
C1_ReverseRelease ==
    AllAcquired =>
        /\ Len(releaseLog) <= Len(acquireLog)
        /\ \A i \in 1..Len(releaseLog) :
              releaseLog[i] = acquireLog[Len(acquireLog) + 1 - i]
        /\ TornDown => releaseLog = Reverse(acquireLog)

C1_Witness ==
    /\ TornDown
    /\ n = 3
    /\ acquireLog = <<1, 2, 3>>
    /\ releaseLog = <<3, 2, 1>>

C4_ReleasedOnce ==
    /\ \A k \in Res : Count(releaseLog, k) <= 1
    /\ TornDown =>
          \A k \in Res :
              Count(releaseLog, k) = IF k \in Range(acquireLog) THEN 1 ELSE 0

C4_Witness ==
    /\ TornDown
    /\ exitCalls = 2
    /\ Len(acquireLog) = 3
    /\ Len(releaseLog) = 3

\* C5: if all acquisitions and the body succeed and the release of j fails,
\* teardown goes on: every resource acquired before j still has its release
\* invoked, in reverse order, and the error surfaced is a release failure
\* whose chain contains j's failure.
C5_ReleaseFailureDoesNotStop ==
    \A j \in Res :
        (TornDown /\ AllAcquired /\ exc = <<>> /\ j \in relFailed) =>
            /\ releaseLog = Reverse(acquireLog)
            /\ \A i \in 1..(j - 1) : i \in Range(releaseLog)
            /\ surfaced # <<>>
            /\ Head(surfaced).kind = "release"
            /\ RelExc(j) \in Range(surfaced)

C5_Witness ==
    /\ TornDown /\ AllAcquired /\ exc = <<>>
    /\ n = 3
    /\ relFailed = {3}
    /\ releaseLog = <<3, 2, 1>>
    /\ surfaced = <<RelExc(3)>>

C7_AllReleaseFailuresCarried ==
    (TornDown /\ exc = <<>> /\ relFailed # {}) =>
        /\ \A i \in 1..Len(surfaced) : surfaced[i].kind = "release"
        /\ ReleaseIdsIn(surfaced) = relFailed
        /\ Len(surfaced) = Cardinality(relFailed)

C7_Witness ==
    /\ TornDown /\ exc = <<>>
    /\ Cardinality(relFailed) >= 2
    /\ ReleaseIdsIn(surfaced) = relFailed

\* The caller of add (the body) is observing the failure of an add.
AddFailureInBody == pc = "leaving" /\ AcquireFailed

C9_StackIffAcquired ==
    \A k \in Res :
        /\ (k \in Range(callbacks)) <=>
              (k \in Range(acquireLog) /\ k \notin Range(releaseLog))
        /\ k \in Range(callbacks) => connected[k]
        /\ Count(callbacks, k) <= 1

C9_Witness ==
    /\ pc = "leaving"
    /\ connectLog = <<1, 2, 3>>
    /\ acquireLog = <<1, 2>>
    /\ callbacks = <<1, 2>>

(***************************************************************************)
(* Properties of combined_approach                                         *)
(***************************************************************************)

\* The teardown steps of one application: its finally block, then its
\* resources from the last entered to the first.
TeardownOf(a) ==
    <<<<a, 0>>>> \o [i \in 1..AppRes |-> <<a, AppRes + 1 - i>>]

RECURSIVE TeardownOfAll(_)
TeardownOfAll(apps) ==
    IF apps = <<>> THEN <<>>
    ELSE TeardownOf(Head(apps)) \o TeardownOfAll(Tail(apps))

IsPrefix(s, t) == Len(s) <= Len(t) /\ s = SubSeq(t, 1, Len(s))

\* The teardown steps made so far of the applications that were entered.
IsOfEnteredApp(e) == e[1] \in Range(appAcquireLog)
EnteredCloses == SelectSeq(closeLog, IsOfEnteredApp)

\* C10: an application entered into the outer stack has its inner stack's
\* __aexit__ called exactly once, namely when the outer stack pops it: never
\* while it is on the outer stack, once from then on.  The teardown steps of
\* the entered applications follow the outer reverse order, each application
\* being torn down completely (finally block, queue, cache, database) before
\* any step of an application entered before it.
C10_NestedTeardown ==
    /\ \A a \in Range(appAcquireLog) :
          innerExitCalls[a] = IF a \in Range(outerCallbacks) THEN 0 ELSE 1
    /\ IsPrefix(EnteredCloses, TeardownOfAll(Reverse(appAcquireLog)))
    /\ appPc = "done" =>
          EnteredCloses = TeardownOfAll(Reverse(appAcquireLog))

C10_Witness ==
    /\ appPc = "done"
    /\ appAcquireLog = <<1, 2>>
    /\ closeLog = << <<2, 0>>, <<2, 3>>, <<2, 2>>, <<2, 1>>,
                     <<1, 0>>, <<1, 3>>, <<1, 2>>, <<1, 1>> >>

(***************************************************************************)
(* Further properties of one scope                                         *)
(***************************************************************************)

\* The scope is being left because the task was cancelled in the body.
Cancelled == exc = <<CancelExc>>

\* C11: a cancellation delivered while the body is running (in an await of
\* the body or in an add it awaits) is handled as a body failure: the
\* cancellation leaves the scope only after the teardown has run to its end
\* and every acquired resource has had its release invoked, in reverse
\* order; it is what surfaces (at the end of the chain when a release
\* fails), and when no release fails every session ends disconnected.
C11_CancellationTearsDown ==
    /\ CancelExc \in Range(surfaced) =>
          /\ callbacks = <<>>
          /\ releaseLog = Reverse(acquireLog)
    /\ (TornDown /\ Cancelled) =>
          /\ callbacks = <<>>
          /\ releaseLog = Reverse(acquireLog)
          /\ surfaced # <<>>
          /\ surfaced[Len(surfaced)] = CancelExc
          /\ relFailed = {} =>
                /\ surfaced = <<CancelExc>>
                /\ \A k \in Res : ~connected[k]

C11_Witness ==
    /\ TornDown /\ Cancelled
    /\ acquireLog = <<1, 2, 3>>
    /\ releaseLog = <<3, 2, 1>>
    /\ surfaced = <<CancelExc>>

\* C12: acquisitions of one scope never overlap: connects are requested in
\* the order 1, 2, ..., at most one is in progress, and when the connect of
\* resource i+1 is invoked every earlier resource has been acquired, so the
\* acquisition order is the request order.
C12_SequentialAcquire ==
    /\ connectLog = [i \in 1..Len(connectLog) |-> i]
    /\ IsPrefix(acquireLog, connectLog)
    /\ Len(connectLog) - Len(acquireLog) <= 1
    /\ \A i \in 1..Len(connectLog) :
          i < Len(connectLog) => i \in Range(acquireLog)
    /\ pc = "acquiring" =>
          /\ cur = Len(connectLog)
          /\ Len(acquireLog) = Len(connectLog) - 1

C12_Witness ==
    /\ pc = "acquiring"
    /\ cur = 3
    /\ connectLog = <<1, 2, 3>>
    /\ acquireLog = <<1, 2>>

\* C13: the scope has two phases with one transition: the first __aexit__
\* call is made only as the body is left, and once it has been made the
\* scope never returns to the acquire phase: no connect is invoked, nothing
\* is acquired, and the callback sequence only shrinks.
C13_TwoPhases ==
    [][ /\ (exitCalls = 0 /\ exitCalls' >= 1) => pc = "leaving"
        /\ exitCalls >= 1 =>
              /\ exitCalls' >= 1
              /\ pc' \in {"teardown", "releasing", "done"}
              /\ connectLog' = connectLog
              /\ acquireLog' = acquireLog
              /\ IsPrefix(callbacks', callbacks) ]_vars

C13_Witness ==
    /\ TornDown
    /\ exitCalls = 2
    /\ Len(connectLog) < n
    /\ acquireLog # <<>>

\* C14: for a scope into which no resource was entered, exit invokes no
\* release and raises nothing of its own: it completes when the body
\* completed, and the body's failure is what surfaces when the body failed.
C14_EmptyScope ==
    (TornDown /\ acquireLog = <<>>) =>
        /\ releaseLog = <<>>
        /\ relFailed = {}
        /\ exc = <<>> => surfaced = <<>>
        /\ BodyFailed => surfaced = <<BodyExc>>

C14_Witness ==
    /\ TornDown
    /\ n = 0
    /\ BodyFailed
    /\ surfaced = <<BodyExc>>

\* The outcomes of the run that has ended, as inputs of the nested form.
AddRaised == Len(acquireLog) < Len(connectLog)
NestedRun ==
    NestedWith(1, Len(connectLog),
               IF AddRaised THEN exc ELSE <<>>,
               IF AddRaised THEN <<>> ELSE exc,
               relFailed)

\* C15: the nested async-with form and the AsyncExitStack form are
\* equivalent: for the same resources in the same order and the same
\* outcomes of the acquisitions, the body and the releases, both invoke the
\* same connects and the same releases in the same order and surface the
\* same error.
C15_NestedEquivalence ==
    TornDown =>
        /\ NestedRun.connects = connectLog
        /\ NestedRun.releases = releaseLog
        /\ NestedRun.raised = surfaced

C15_Witness ==
    /\ TornDown
    /\ BodyFailed
    /\ acquireLog = <<1, 2, 3>>
    /\ relFailed = {2}
    /\ surfaced = <<RelExc(2), BodyExc>>

\* C16: the stack never retries: connect is invoked at most once per add
\* and disconnect at most once per acquired resource, also when the connect
\* or the disconnect raised.
C16_NoRetry ==
    /\ Len(connectLog) <= n
    /\ \A k \in Res :
          /\ Count(connectLog, k) <= 1
          /\ Count(releaseLog, k) <= 1
          /\ (k \in relFailed) => Count(releaseLog, k) = 1
          /\ (k \in Range(connectLog) /\ k \notin Range(acquireLog)
                /\ pc # "acquiring") => Count(connectLog, k) = 1

C16_Witness ==
    /\ TornDown
    /\ exc = <<AcqExc(3)>>
    /\ connectLog = <<1, 2, 3>>
    /\ relFailed = {1, 2}

\* Control is at the statement that follows the with statement.
ReachedAfterScope == TornDown /\ surfaced = <<>>

\* C17: whichever way the scope was left, once it has ended a session is
\* still connected only if its own disconnect raised; when control reaches
\* the statement after the scope (nothing was raised by the with statement),
\* every session connected inside the scope has connected = False.
C17_AllDisconnectedAfterScope ==
    /\ TornDown => \A k \in Res : connected[k] => k \in relFailed
    /\ ReachedAfterScope => \A k \in Res : ~connected[k]

C17_Witness ==
    /\ ReachedAfterScope
    /\ acquireLog = <<1, 2, 3>>
    /\ \A k \in Res : ~connected[k]

(***************************************************************************)
(* Context-variable sessions                                               *)
(***************************************************************************)

\* C18: after any properly nested sequence of smart_session entries and
\* exits, current_session and current_model hold the session and the model
\* of the innermost smart_session still open, and the defaults None and
\* 'gpt-3.5-turbo' when none is open; each exit restores the values that
\* were in effect at the matching entry, also when the body raised.
C18_NestedSessions ==
    /\ openSessions = <<>> =>
          /\ SessionGet = 0
          /\ ModelGet = "gpt-3.5-turbo"
    /\ openSessions # <<>> =>
          LET top == openSessions[Len(openSessions)]
          IN  /\ SessionGet = top.session
              /\ ModelGet = sessions[top.session].model
    /\ sessOp = "exit" =>
          /\ SessionGet = sessExited.atEntry.session
          /\ ModelGet = sessExited.atEntry.model

C18_Witness ==
    /\ sessOp = "exit"
    /\ sessRaising
    /\ Len(sessions) = 2
    /\ Len(openSessions) = 1
    /\ sessExited.session = 2
    /\ sessions[1].model = "gpt-4"
    /\ sessions[2].model = "gpt-3.5-turbo"
    /\ SessionGet = 1
    /\ ModelGet = "gpt-4"

(***************************************************************************)
(* Temporary configuration                                                 *)
(***************************************************************************)

\* C19: temp_config temporarily modifies the config and restores it on
\* exit: inside the scope config[key] is the value, and after the scope has
\* exited, normally or by an exception of the body, the config equals the
\* config before entry, whether the key was present before entry or absent.
C19_TempConfigRestores ==
    /\ cfgOp = "enter" =>
          LET top == cfgFrames[Len(cfgFrames)]
          IN  /\ top.key \in DOMAIN config
              /\ config[top.key] \in ConfigValues
    /\ cfgOp = "exit" => config = cfgExited.before

\* The key was absent before entry and is bound to None after the exit.
C19_Witness ==
    /\ cfgOp = "exit"
    /\ cfgFrames = <<>>
    /\ DOMAIN cfgExited.before = {}
    /\ cfgExited.key = "debug"
    /\ DOMAIN config = {"debug"}
    /\ config["debug"] = PyNone

(***************************************************************************)
(* Clients                                                                 *)
(***************************************************************************)

\* C20: simple_query does not preserve the query in the history: after
\* AIClient.simple_query and after LLMClient.simple_query, chat_history
\* holds the same messages in the same order as when the call was made,
\* whether the underlying API call succeeded or raised.
C20_SimpleQueryKeepsHistory ==
    clientOp = "simple_query" => chat_history = prevHistory

C20_Witness ==
    /\ clientOp = "simple_query"
    /\ clientRaised
    /\ clientKind = "LLMClient"
    /\ Len(chat_history) = 3
    /\ chat_history[3].role = "user"
    /\ chat_history = prevHistory

\* C21: generate_text and chat send the caller's temperature and top_p
\* whenever they are supplied (any value other than None, 0 included), and
\* the defaults of the provider config only when they are not supplied.
C21_SuppliedParametersSent ==
    (clientOp \in {"chat", "generate_text"} /\ request # <<>>) =>
        /\ callArgs.temperature # <<>> =>
              request[1].temperature = callArgs.temperature[1]
        /\ callArgs.temperature = <<>> =>
              request[1].temperature = ConfigDefaults(clientKind).temperature
        /\ callArgs.top_p # <<>> =>
              request[1].top_p = callArgs.top_p[1]
        /\ callArgs.top_p = <<>> =>
              request[1].top_p = ConfigDefaults(clientKind).top_p

\* AIClient.chat(..., temperature=0) has sent temperature 0.7.
C21_Witness ==
    /\ clientKind = "AIClient"
    /\ clientOp = "chat"
    /\ callArgs = [temperature |-> <<0>>, top_p |-> <<>>]
    /\ request = <<[temperature |-> 70, top_p |-> 95]>>

\* C22: after AIClient.switch_provider, whether the initialisation for the
\* new provider succeeded or raised, chat_history holds the same messages in
\* the same order as before the call.
C22_SwitchKeepsHistory ==
    clientOp = "switch_provider" => chat_history = prevHistory

C22_Witness ==
    /\ clientOp = "switch_provider"
    /\ clientRaised
    /\ Len(chat_history) = 3
    /\ chat_history = prevHistory

\* C29: switch_provider assigns the provider name before it initialises the
\* client.  The call raises exactly when the requested provider is not in
\* the table or has no API key there; then provider names the requested
\* provider while config and client are the objects held before the call.
\* When it returns, provider, config and client all belong to the requested
\* provider.
C29_SwitchProviderOrder ==
    [][ clientOp' = "switch_provider" =>
          /\ clientRaised' = (\/ provider' \notin DOMAIN API_PROVIDERS
                              \/ API_PROVIDERS[provider'].api_key = "")
          /\ clientRaised' =>
                /\ client_config' = client_config
                /\ client' = client
          /\ ~clientRaised' =>
                /\ client_config'.provider = provider'
                /\ client'.base_url = provider'
                /\ client'.api_key = client_config'.api_key ]_vars

C29_Witness ==
    /\ clientOp = "switch_provider"
    /\ clientRaised
    /\ provider = "mistral"
    /\ client_config.provider = "gemini"
    /\ client.base_url = "gemini"

\* C30 as stated: every chat call appends the user message; a successful
\* one then appends the assistant reply, a failing one appends nothing more
\* and raises.
C30_Original ==
    clientOp = "chat" =>
        \E m \in Queries :
            IF clientRaised
            THEN chat_history = AddMessage(prevHistory, "user", m)
            ELSE chat_history =
                    AddMessage(AddMessage(prevHistory, "user", m),
                               "assistant", Reply(m))

\* C30: a successful chat appends the user message and then the assistant
\* reply; a chat whose API call raises leaves the user message appended
\* without a reply; an LLMClient.chat whose provider-config lookup raises
\* sends no request and leaves the history as it was.
C30_ChatAppends ==
    clientOp = "chat" =>
        \E m \in Queries :
            /\ ~clientRaised =>
                  chat_history = AddMessage(AddMessage(prevHistory, "user", m),
                                            "assistant", Reply(m))
            /\ (clientRaised /\ request # <<>>) =>
                  chat_history = AddMessage(prevHistory, "user", m)
            /\ (clientRaised /\ request = <<>>) =>
                  /\ clientKind = "LLMClient"
                  /\ chat_history = prevHistory

C30_Witness ==
    /\ clientOp = "chat"
    /\ clientRaised
    /\ request # <<>>
    /\ Len(prevHistory) = 2
    /\ Len(chat_history) = 3
    /\ chat_history[3].role = "user"

\* C23: while the body is running or adding (no acquisition and no body
\* failure yet), no release has been invoked and every resource added
\* earlier is still acquired: it is on the stack and connected, so call_tool
\* on its session does not raise ConnectionError.
C23_AcquiredStayAcquired ==
    /\ pc \in {"body", "acquiring"} =>
          /\ releaseLog = <<>>
          /\ callbacks = acquireLog
          /\ \A k \in Range(acquireLog) :
                /\ connected[k]
                /\ ~CallToolRaises(k)
    /\ releaseLog # <<>> => exitCalls >= 1

C23_Witness ==
    /\ pc = "acquiring"
    /\ cur = 3
    /\ acquireLog = <<1, 2>>
    /\ connected[1] /\ connected[2]
    /\ releaseLog = <<>>

\* C24: when every awaited disconnect terminates, a scope that is being
\* left reaches its terminal state: eventually __aexit__ has returned, the
\* callback stack is empty and every acquired resource has had its release
\* invoked, whatever the number of resources and whichever releases fail.
C24_TeardownCompletes ==
    (pc = "leaving") ~>
        (/\ pc = "done"
         /\ callbacks = <<>>
         /\ Range(acquireLog) \subseteq Range(releaseLog))

C24_Witness ==
    /\ pc = "done"
    /\ acquireLog = <<1, 2, 3>>
    /\ relFailed = {1, 3}
    /\ releaseLog = <<3, 2, 1>>
    /\ callbacks = <<>>

\* C25: each smart_llm_call appends exactly one record, carrying the model
\* of the innermost open smart_session, to the calls list of that session
\* and changes no other session's list; a call made while no session is
\* open changes no list.
C25_SessionIsolation ==
    [][ llmCalls' # llmCalls =>
          IF openSessions = <<>>
          THEN sessions' = sessions
          ELSE LET top == openSessions[Len(openSessions)].session
               IN  \E prompt \in Prompts :
                      sessions' =
                         [sessions EXCEPT ![top].calls =
                             Append(@, [prompt |-> prompt,
                                        model |-> sessions[top].model])] ]_vars

C25_Witness ==
    /\ sessOp = "call"
    /\ Len(openSessions) = 2
    /\ sessions[1].model = "gpt-4"
    /\ sessions[2].model = "gpt-3.5-turbo"
    /\ Len(sessions[1].calls) = 1
    /\ sessions[1].calls[1].model = "gpt-4"
    /\ Len(sessions[2].calls) = 1
    /\ sessions[2].calls[1].model = "gpt-3.5-turbo"

(***************************************************************************)
(* LLM session                                                             *)
(***************************************************************************)

\* C26: llm_session prints its statistics exactly once on every exit path,
\* after everything the body did and never while the body runs; an
\* exception raised by the body is the exception the caller gets; the
\* session is reported completed exactly when the body ended normally.
C26_CleanupOnceAndReraise ==
    /\ llmPc = "body" => Count(llmOutput, "stats") = 0
    /\ llmPc = "done" =>
          /\ Count(llmOutput, "stats") = 1
          /\ llmOutput[Len(llmOutput)] = "stats"
          /\ llmRaised = (IF llmBody = "return" THEN "none" ELSE llmBody)
          /\ ("completed" \in Range(llmOutput)) <=> (llmBody = "return")

C26_Witness ==
    /\ llmPc = "done"
    /\ llmBody = "ValueError"
    /\ llmRaised = "ValueError"
    /\ Len(llmSession.messages) = 1
    /\ llmOutput = <<"starting", "message", "error", "stats">>

(***************************************************************************)
(* Production workload                                                     *)
(***************************************************************************)

\* C27: the workload tasks run interleaved inside the scope, and the
\* teardown of the five services begins only when all three have ended, by
\* returning, raising or being cancelled: while a workload task is running
\* no disconnect has been invoked and every service is connected, so no
\* call_tool of a workload raises ConnectionError.
C27_TeardownAfterTasks ==
    /\ (\E t \in Tasks : taskEnd[t] = "running" /\ prodPc # "adding") =>
          /\ prodPc = "gathering"
          /\ prodLog = <<>>
          /\ \A sv \in Services : prodConnected[sv]
    /\ prodLog # <<>> => \A t \in Tasks : taskEnd[t] # "running"
    /\ connErrors = {}

C27_Witness ==
    /\ prodPc = "done"
    /\ prodLog = <<5, 4, 3, 2, 1>>
    /\ taskEnd = <<"returned", "raised", "returned">>
    /\ taskPos = <<3, 2, 3>>
    /\ ~cancelRequested

(***************************************************************************)
(* Manual connection management                                            *)
(***************************************************************************)

\* C28: with manual connection management cleanup is not guaranteed on
\* every exit path.  The function ends with every session disconnected
\* exactly when it ends without an exception; when it ends with a session
\* still connected, it ended by an exception: one that `except Exception`
\* does not catch, or one raised in the cleanup, after the except clause
\* had run.  Such an end is reachable (C28_Witness).
C28_CleanupOnlyOnNormalEnd ==
    manPc = "done" =>
        /\ manRaised = "none" => \A k \in ManSessions : ~manConnected[k]
        /\ (\E k \in ManSessions : manConnected[k]) => manRaised # "none"
        /\ (manRaised # "none" /\ CaughtByExcept(manRaised)) =>
               manOutput # <<>>

C28_Witness ==
    /\ manPc = "done"
    /\ manRaised = "CancelledError"
    /\ manOutput = <<>>
    /\ manConnected = <<TRUE, TRUE, FALSE>>
    /\ manServer = AllUp

(***************************************************************************)
(* API-key overrides                                                       *)
(***************************************************************************)

\* C31: an API-key override is local to one client.  No call, and so no
\* constructor and no switch_provider with an api_key override, changes
\* the module-level API_PROVIDERS table, and a client constructed without
\* an override, also after overrides have been used, holds the key the
\* table configures for its provider, in self.config and in self.client.
C31_OverrideIsLocal ==
    [][ /\ API_PROVIDERS' = API_PROVIDERS
        /\ (clientOp' = "AIClient(provider)" /\ ~clientRaised') =>
              /\ client_config'.api_key = API_PROVIDERS[provider'].api_key
              /\ client'.api_key = API_PROVIDERS[provider'].api_key ]_vars

C31_Witness ==
    /\ overridden
    /\ clientOp = "AIClient(provider)"
    /\ ~clientRaised
    /\ provider = "openai"
    /\ client.api_key = "env-key"
    /\ API_PROVIDERS["openai"].api_key = "env-key"

(***************************************************************************)
(* LLM session: add_message                                                *)
(***************************************************************************)

RECURSIVE SumTokens(_)
\* The sum of len(content) // 4 over a list of messages.
SumTokens(messages) ==
    IF messages = <<>>
    THEN 0
    ELSE (Head(messages).content \div 4) + SumTokens(Tail(messages))

\* C32: add_message never rejects a message.  After any sequence of
\* add_message calls on a session, session["tokens"] is the sum of
\* len(content) // 4 over session["messages"] and the number of messages is
\* the number of calls made, also when the tokens exceed max_tokens; the
\* limit shows only in the warning, which has been printed whenever the
\* tokens exceed it.
C32_AddMessageNeverRejects ==
    llmPc \in {"body", "done"} =>
        /\ llmSession.tokens = SumTokens(llmSession.messages)
        /\ Len(llmSession.messages) = Count(llmOutput, "message")
        /\ llmSession.tokens > llmSession.max_tokens =>
               "limit exceeded" \in Range(llmOutput)

C32_Witness ==
    /\ llmPc = "body"
    /\ llmSession.max_tokens = 5
    /\ Len(llmSession.messages) = 3
    /\ llmSession.messages[1].content = 12
    /\ llmSession.messages[2].content = 50
    /\ llmSession.messages[3].content = 3
    /\ llmSession.tokens = 15
    /\ llmOutput = <<"starting", "message", "limit exceeded", "message",
                     "limit exceeded", "message">>
====
